---------------------------- MODULE Spec2Model ----------------------------
(***************************************************************************)
(* Model of the Alvys ingestion pipeline: the paginator                    *)
(* (alvys_export.fetch_paginated_data), the record sanitizers and          *)
(* flatteners of alvys_insert and trips_insert, the batch                  *)
(* writers (batch_insert, bulk_insert) and the snapshot store (save_json,  *)
(* load_json).  Each part has its own specification over the shared        *)
(* variables; the variables of the other parts stay at their idle values.  *)
(***************************************************************************)
EXTENDS Integers, Sequences, FiniteSets, TLC

(***************************************************************************)
(* Bounds of the model.  PageSize stands for PAGE_SIZE (200 in the source):*)
(* the paginator only compares lengths with it, so it is scaled down.      *)
(***************************************************************************)
PageSize == 2
MaxPages == 4
MaxN == 5
MaxCap == 3
MaxStops == 2

\* Column widths of trips_insert (the max_len arguments of _s), scaled down
\* from 100, 50, 200 and 20 characters.
S100 == 5
S50 == 3
S200 == 6
S20 == 2

\* The writers' chunk sizes, scaled down from BATCH_SIZE = 500 (alvys_insert,
\* active_entities_insert) and CHUNK_SIZE = 1000 (trips_insert).
BATCH_SIZE == 2
CHUNK_SIZE == 2
\* Records one fetch returns at most, the instants the clock takes, and the
\* clock instants that fall in one millisecond (the resolution of FILE_ID).
MaxItems == 3
MaxClock == 3
TicksPerMs == 2
\* Dates: the milliseconds of a day, scaled down from 86,400,000, the last
\* day (counted from the epoch) a reference instant falls in, and the
\* largest --weeks-ago tried.
TicksPerDay == 4
MaxDay == 27
MaxWeeks == 3

\* FILE_ID values 0..MaxFileId appear in the snapshot contents tried.
MaxFileId == 2

\* lru_cache(maxsize=128), scaled down; a process makes up to MaxCalls
\* calls of get_credentials.
maxsize == 2
MaxCalls == 4

VARIABLES
    \* ---- fetch_paginated_data -------------------------------------------
    pc,         \* "idle" | "loop" | "done" | "failed"
    page,       \* local `page`
    items,      \* local `items`
    max_items,  \* argument `max_items`; NoCap stands for None
    result,     \* the list handed back to the caller (meaningful when pc = "done")
    requests,   \* pages requested so far, in order (what the server saw)
    served,     \* concatenation of the batches the server sent, in order
    srvMode,    \* "honest" (holds srvN items, serves them in full pages) | "arbitrary"
    srvN,       \* number of items the honest server holds
    errPage,    \* page whose request the server answered non-2xx, or -1
    \* ---- sanitizers / flatteners ----------------------------------------
    ent,        \* which sanitizer is applied ("none" when idle)
    rec,        \* its argument: [f |-> the RawRecord, stops |-> its stop list]
    out,        \* its outcome: [called, raised, rows, stops]
    \* ---- snapshot store -------------------------------------------------
    entity,     \* the entity the run is about ("none" when idle)
    clock,      \* the wall clock
    files,      \* the data directory: file name -> text of the file (NoFile when absent)
    written,    \* history: file name -> the records handed to the latest save_json
    lastSave,   \* history: the latest save_json call, [f, replaced]
    loaded,     \* the outcome of the latest load_json call
    \* ---- batch writers --------------------------------------------------
    run,        \* the insert run: [pc, via]
    todo,       \* the frames still to be handed to a writer, in order
    w,          \* the write in progress: [table, kind, rows, i, ts]
    sent,       \* rows sent in the open transaction, not yet committed
    tables,     \* the warehouse: table -> committed rows
    stmts,      \* table -> multi-row insert statements issued
    commits,    \* table -> commits issued
    called,     \* table -> "none" | "empty" | "rows": how its writer was called
    run_ts,     \* trips_insert.RUN_TS (NotImported before the module is imported)
    \* ---- utils.dates -----------------------------------------------------
    reference,  \* the argument `reference` of get_last_week_range
    week,       \* its outcome: [called, raised, start, end]
    \* ---- main.py (the CLI) ----------------------------------------------
    args,       \* the parsed command line: [cmd, ents, weeks_ago, dry_run, known]
    today,      \* the instant the process runs at
    cli,        \* the run: [pc, fatal, pos]
    io,         \* the network and storage I/O and the prints so far, in order
    passed,     \* the date_range handed to export_endpoints: [called, start, end]
    \* ---- alvys_export.export_endpoints / main, step by step --------------
    avail,      \* what the API holds: job -> number of records
    xp,         \* the export run: [pc, jobs, pos, token, page, items, file_id, fetched_at, before]
    xlog,       \* the requests, identifiers and file writes of the run, in order
    \* ---- FILE_ID from snapshot to row -----------------------------------
    snap,       \* the records of one snapshot file
    derived,    \* what an insert module derived from it: [called, module, rows, stops]
    \* ---- config.get_credentials -----------------------------------------
    cache,      \* the keys lru_cache holds, least recently used first
    calls,      \* the calls so far: [raw, hit, res]
    evicted     \* the keys lru_cache has dropped

pagVars == <<pc, page, items, max_items, result, requests, served, srvMode, srvN, errPage>>
sanVars == <<ent, rec, out>>

storeVars == <<entity, clock, files>>
snapVars == <<written, lastSave, loaded>>
wrVars == <<run, todo, w, sent, tables, stmts, commits, called, run_ts>>

datVars == <<reference, week>>
cliVars == <<args, today, cli, io, passed>>
expVars == <<avail, xp, xlog>>
fidVars == <<snap, derived>>
credVars == <<cache, calls, evicted>>

vars == <<pagVars, sanVars, storeVars, snapVars, wrVars, datVars, cliVars, expVars, fidVars, credVars>>

\* What each part leaves alone.
NotPag == <<sanVars, storeVars, snapVars, wrVars, datVars, cliVars, expVars, fidVars, credVars>>
NotSan == <<pagVars, storeVars, snapVars, wrVars, datVars, cliVars, expVars, fidVars, credVars>>
NotSnap == <<pagVars, sanVars, wrVars, datVars, cliVars, expVars, fidVars, credVars>>
NotWrite == <<pagVars, sanVars, snapVars, datVars, cliVars, expVars, fidVars, credVars>>
NotDat == <<pagVars, sanVars, storeVars, snapVars, wrVars, cliVars, expVars, fidVars, credVars>>
NotCli == <<pagVars, sanVars, storeVars, snapVars, wrVars, datVars, expVars, fidVars, credVars>>
NotExp == <<pagVars, sanVars, snapVars, wrVars, datVars, cliVars, fidVars, credVars>>
NotFid == <<pagVars, sanVars, storeVars, snapVars, wrVars, datVars, cliVars, expVars, credVars>>
NotCred == <<pagVars, sanVars, storeVars, snapVars, wrVars, datVars, cliVars, expVars, fidVars>>

----------------------------------------------------------------------------
(***************************************************************************)
(* Generic helpers                                                         *)
(***************************************************************************)
Min(a, b) == IF a < b THEN a ELSE b

\* s[:n] of Python for n >= 0
Take(s, n) == SubSeq(s, 1, Min(n, Len(s)))

\* <<a, a+1, ..., b>>
Range(a, b) == [i \in 1..(IF b >= a THEN b - a + 1 ELSE 0) |-> a + i - 1]

IsPrefix(s, t) == Len(s) <= Len(t) /\ s = SubSeq(t, 1, Len(s))

----------------------------------------------------------------------------
(***************************************************************************)
(* Paginator: alvys_export.fetch_paginated_data                            *)
(***************************************************************************)
\* max_items=None
NoCap == -1

\* Python truthiness of max_items: None and 0 are falsy.
CapTruthy(m) == m # NoCap /\ m # 0

\* The JSON body of a 2xx response: the page sits under one casing of the key.
Body(key, batch) ==
    [hasItems |-> key = "Items", Items |-> IF key = "Items" THEN batch ELSE <<>>,
     hasitems |-> key = "items", items |-> IF key = "items" THEN batch ELSE <<>>]

\* batch = result.get("Items") or result.get("items") or []
ExtractBatch(body) ==
    IF body.hasItems /\ body.Items # <<>> THEN body.Items
    ELSE IF body.hasitems /\ body.items # <<>> THEN body.items
    ELSE <<>>

\* if len(batch) < PAGE_SIZE or (max_items and len(items) >= max_items): break
ShouldBreakMutShort(batch, its, m) ==
    Len(batch) <= PageSize \/ (CapTruthy(m) /\ Len(its) >= m)

ShouldBreak(batch, its, m) ==
    Len(batch) < PageSize \/ (CapTruthy(m) /\ Len(its) >= m)

\* return items if not max_items else items[:max_items]
ReturnValue(its, m) == IF ~CapTruthy(m) THEN its ELSE Take(its, m)

\* What the server sends for a request of page p, as a number of items:
\* the honest server serves its srvN items in full pages until exhausted,
\* the arbitrary one sends any batch (even one longer than the page size).
BatchLens(p) ==
    IF srvMode = "honest"
    THEN {Min(PageSize, IF srvN > p * PageSize THEN srvN - p * PageSize ELSE 0)}
    ELSE 0..(PageSize + 1)

\* The items of a batch: the honest server's items are numbered 1..srvN by
\* position; the arbitrary server numbers what it sends consecutively.
BatchItems(p, n) ==
    IF srvMode = "honest" THEN Range(p * PageSize + 1, p * PageSize + n)
    ELSE Range(Len(served) + 1, Len(served) + n)

\* response.raise_for_status(): a non-2xx status raises out of the function.
RaisesMutIgnore(ok) == FALSE

Raises(ok) == ~ok

PagInit ==
    /\ pc = "loop"
    /\ page = 0
    /\ items = <<>>
    /\ max_items \in {NoCap} \cup (0..MaxCap)
    /\ result = <<>>
    /\ requests = <<>>
    /\ served = <<>>
    /\ srvMode \in {"honest", "arbitrary"}
    /\ srvN \in 0..MaxN
    /\ (srvMode = "arbitrary" => srvN = 0)
    /\ errPage = -1

\* One iteration of `while True`, for a request the server answers non-2xx.
FetchError ==
    /\ pc = "loop"
    /\ page < MaxPages
    /\ requests' = Append(requests, page)
    /\ errPage' = page
    /\ IF Raises(FALSE)
       THEN /\ pc' = "failed"
            /\ UNCHANGED <<page, items, result, served>>
       ELSE \* the body of an error response holds no items
            /\ pc' = "done"
            /\ result' = ReturnValue(items, max_items)
            /\ UNCHANGED <<page, items, served>>
    /\ UNCHANGED <<max_items, srvMode, srvN>>

\* One iteration of `while True`, for a request the server answers 2xx;
\* the `return` that follows a `break` is part of the iteration.
FetchPage ==
    /\ pc = "loop"
    /\ page < MaxPages
    /\ \E n \in BatchLens(page), key \in {"Items", "items"} :
         LET batch == ExtractBatch(Body(key, BatchItems(page, n)))
             its   == items \o batch
         IN /\ requests' = Append(requests, page)
            /\ served' = served \o BatchItems(page, n)
            /\ IF batch = <<>>
               THEN /\ pc' = "done"
                    /\ result' = ReturnValue(items, max_items)
                    /\ UNCHANGED <<page, items>>
               ELSE /\ items' = its
                    /\ IF ShouldBreak(batch, its, max_items)
                       THEN /\ pc' = "done"
                            /\ result' = ReturnValue(its, max_items)
                            /\ page' = page
                       ELSE /\ pc' = "loop"
                            /\ page' = page + 1
                            /\ result' = result
    /\ UNCHANGED <<max_items, srvMode, srvN, errPage>>

PagIdle ==
    /\ pc = "idle" /\ page = 0 /\ items = <<>> /\ max_items = NoCap /\ result = <<>>
    /\ requests = <<>> /\ served = <<>> /\ srvMode = "honest" /\ srvN = 0 /\ errPage = -1

PagNext ==
    \/ FetchPage /\ UNCHANGED NotPag
    \/ FetchError /\ UNCHANGED NotPag

----------------------------------------------------------------------------
(***************************************************************************)
(* Python values.  A value is [k |-> kind, s |-> text]: the kind is the    *)
(* Python type ("None", "True", "False", "int", "str", "dict", "list",     *)
(* "float", "datetime"), the text the characters of a str or the digits of *)
(* a number.  ABSENT is the state of a key a dict does not hold; RAISE     *)
(* marks an expression whose evaluation raises.                            *)
(***************************************************************************)
Val(k, s) == [k |-> k, s |-> s]
None == Val("None", <<>>)
ABSENT == Val("ABSENT", <<>>)
RAISE == Val("RAISE", <<>>)
VDict == Val("dict", <<>>)       \* a dict; its keys are the paths below it
VList == Val("list", <<>>)       \* a non-empty list that holds no dict, as [0]
VTrue == Val("True", <<>>)
VFalse == Val("False", <<>>)
VInt(d) == Val("int", d)
VStr(s) == Val("str", s)
VFloat(d) == Val("float", d)
VDatetime(s) == Val("datetime", s)

\* Characters.  "D" stands for a full ISO-8601 instant without zone
\* (2025-06-01T00:00:00.000), "Z" for the UTC suffix, "+" for "+00:00".
Digit == {"0", "1", "2", "3", "4", "5", "6", "7", "8", "9"}
IsoZ == <<"D", "Z">>
LongText == <<"a", "b", "c", "d", "e", "f", "g">>

\* The states a key is put in: missing, or holding one value of each shape.
KeyStates ==
    {ABSENT, None, VDict, VList, VTrue, VFalse, VInt(<<"0">>), VInt(<<"7">>),
     VStr(<<>>), VStr(<<" ">>), VStr(<<"a">>), VStr(<<" ", "a", " ">>),
     VStr(<<"7">>), VStr(IsoZ), VStr(LongText)}

\* bool(v)
Truthy(v) ==
    CASE v.k \in {"None", "False", "ABSENT"} -> FALSE
      [] v.k = "int" -> v.s # <<"0">>
      [] v.k = "str" -> v.s # <<>>
      [] OTHER -> TRUE

\* str(v)
Str(v) ==
    CASE v.k \in {"str", "int"} -> v.s
      [] v.k = "True" -> <<"T", "r", "u", "e">>
      [] v.k = "False" -> <<"F", "a", "l", "s", "e">>
      [] v.k = "None" -> <<"N", "o", "n", "e">>
      [] v.k = "dict" -> <<"{", "x", "}">>
      [] OTHER -> <<"[", "0", "]">>

\* s.strip()
RECURSIVE LStrip(_)
LStrip(s) == IF s # <<>> /\ Head(s) = " " THEN LStrip(Tail(s)) ELSE s
RECURSIVE RStrip(_)
RStrip(s) ==
    IF s # <<>> /\ s[Len(s)] = " " THEN RStrip(SubSeq(s, 1, Len(s) - 1)) ELSE s
Strip(s) == RStrip(LStrip(s))

IsDigits(s) == s # <<>> /\ \A i \in 1..Len(s) : s[i] \in Digit

\* int(v): bools and ints convert, a str must hold an integer literal
\* (surrounding blanks allowed); None, dict, list and other text raise.
PyInt(v) ==
    CASE v.k = "True" -> VInt(<<"1">>)
      [] v.k = "False" -> VInt(<<"0">>)
      [] v.k = "int" -> v
      [] v.k = "str" /\ IsDigits(Strip(v.s)) -> VInt(Strip(v.s))
      [] OTHER -> RAISE

\* x or y
Or(x, y) == IF Truthy(x) THEN x ELSE y

\* val.replace("Z", "+00:00")
ReplaceZ(s) == [i \in 1..Len(s) |-> IF s[i] = "Z" THEN "+" ELSE s[i]]

\* datetime.fromisoformat accepts an instant with or without a numeric offset.
IsIso(s) == s \in {<<"D">>, <<"D", "+">>}

\* alvys_insert.safe_datetime
safe_datetime(val) ==
    IF ~Truthy(val) THEN None
    ELSE IF val.k = "str" /\ IsIso(ReplaceZ(val.s)) THEN VDatetime(ReplaceZ(val.s))
    ELSE None   \* AttributeError (no .replace) or ValueError, both caught

\* trips_insert._s
s_(val, max_len) ==
    IF val = None THEN None
    ELSE LET s == Strip(Str(val))
         IN IF s = <<>> THEN None
            ELSE IF max_len # 0 THEN VStr(Take(s, max_len)) ELSE VStr(s)

\* trips_insert._f
f_(val) ==
    IF val = None \/ val = VStr(<<>>) THEN None
    ELSE CASE val.k = "int" -> VFloat(val.s)
           [] val.k = "True" -> VFloat(<<"1">>)
           [] val.k = "False" -> VFloat(<<"0">>)
           [] val.k = "str" /\ IsDigits(Strip(val.s)) -> VFloat(Strip(val.s))
           [] OTHER -> None   \* TypeError / ValueError, both caught

\* trips_insert._dt on one element of a column, followed by bulk_insert's
\* df.where(pd.notnull(df), None): pd.to_datetime(utc=True, errors="coerce")
\* gives NaT for what it cannot parse, a number counts from the epoch, and
\* NaT is written as null.
dt_(val) ==
    CASE val.k = "str" /\ val.s \in {<<"D">>, <<"D", "Z">>, <<"D", "+">>} -> VDatetime(<<"D">>)
      [] val.k = "int" -> VDatetime(<<"E">> \o val.s)
      [] OTHER -> None

(***************************************************************************)
(* RawRecords.  A record is a function from paths (tuples of keys) to the  *)
(* state of the key at that path; the keys below a path that holds no dict *)
(* are ABSENT.  A schema gives each path the type the API documents.       *)
(***************************************************************************)
Of(t, paths) == [p \in paths |-> t]

WellFormed(t) ==
    CASE t = "str" -> VStr(<<"a">>)
      [] t = "date" -> VStr(IsoZ)
      [] t = "num" -> VInt(<<"7">>)
      [] t = "bool" -> VTrue
      [] t = "list" -> VList
      [] OTHER -> VDict

Parent(p) == SubSeq(p, 1, Len(p) - 1)

Normalise(f) ==
    [p \in DOMAIN f |->
        IF \E i \in 1..(Len(p) - 1) : f[SubSeq(p, 1, i)].k # "dict"
        THEN ABSENT ELSE f[p]]

Full(schema) == [p \in DOMAIN schema |-> WellFormed(schema[p])]
Empty(schema) == [p \in DOMAIN schema |-> ABSENT]

\* The records tried: the complete record and the empty one with one key
\* put in any state, and the complete record with any two keys removed.
Variants(schema) ==
    {Normalise([bg EXCEPT ![p] = v]) :
        bg \in {Full(schema), Empty(schema)}, p \in DOMAIN schema, v \in KeyStates}
    \cup {Normalise([[Full(schema) EXCEPT ![p1] = ABSENT] EXCEPT ![p2] = ABSENT]) :
        p1 \in DOMAIN schema, p2 \in DOMAIN schema}

\* d.get(k) for the key at path p of a dict
Get(f, p) == IF f[p] = ABSENT THEN None ELSE f[p]

\* d.get(k, default)
GetOr(f, p, default) == IF f[p] = ABSENT THEN default ELSE f[p]

\* d.get(a, {}).get(b, default) for p = <<..., a, b>>: the default {} only
\* replaces a missing a; any other non-dict has no .get (AttributeError).
GetInOrMutStrict(f, p, default) ==
    IF f[Parent(p)].k = "dict" THEN GetOr(f, p, default) ELSE RAISE

GetInOr(f, p, default) ==
    IF f[Parent(p)] = ABSENT THEN default
    ELSE IF f[Parent(p)].k = "dict" THEN GetOr(f, p, default)
    ELSE RAISE

GetIn(f, p) == GetInOr(f, p, None)

\* trips_insert.g(d, *keys) for the path p = keys: None as soon as the
\* value walked through is no dict.
g(f, p) ==
    IF \E i \in 1..(Len(p) - 1) : Get(f, SubSeq(p, 1, i)).k # "dict"
    THEN None ELSE Get(f, p)

\* bool(d.get(k)) where the dict at p has modelled keys: {} is falsy.
TruthyAt(f, p) ==
    IF f[p].k = "dict" /\ \E q \in DOMAIN f : Len(q) = Len(p) + 1 /\ Parent(q) = p
    THEN \E q \in DOMAIN f : Len(q) = Len(p) + 1 /\ Parent(q) = p /\ f[q] # ABSENT
    ELSE Truthy(f[p])

(***************************************************************************)
(* alvys_insert.sanitize_* (and the two of active_entities_insert that     *)
(* differ).  A row is the dict the function returns.                       *)
(***************************************************************************)
DriverSchema ==
    Of("str", {<<"Id">>, <<"EmployeeId">>, <<"Type">>, <<"SubsidiaryId">>,
               <<"Address", "ZipCode">>, <<"Fleet", "Id">>, <<"Fleet", "Name">>,
               <<"FILE_ID">>})
    @@ Of("obj", {<<"Address">>, <<"Fleet">>})
    @@ Of("date", {<<"CreatedAt">>, <<"HiredAt">>})
    @@ Of("bool", {<<"IsActive">>})

sanitize_driver(d) ==
    [ID |-> Get(d, <<"Id">>),
     EMPLOYEE_ID |-> Get(d, <<"EmployeeId">>),
     DRIVER_TYPE |-> Get(d, <<"Type">>),
     SUBSIDIARY_ID |-> Get(d, <<"SubsidiaryId">>),
     ZIP_CODE |-> GetIn(d, <<"Address", "ZipCode">>),
     FLEET_ID |-> GetIn(d, <<"Fleet", "Id">>),
     FLEET_NAME |-> GetIn(d, <<"Fleet", "Name">>),
     CREATED_DTTM |-> safe_datetime(Get(d, <<"CreatedAt">>)),
     IS_ACTIVE |-> PyInt(GetOr(d, <<"IsActive">>, VFalse)),
     HIRED_DTTM |-> safe_datetime(Get(d, <<"HiredAt">>)),
     FILE_ID |-> Get(d, <<"FILE_ID">>)]

TruckSchema ==
    Of("str", {<<"Id">>, <<"TruckNum">>, <<"Status">>, <<"VinNumber">>, <<"Make">>,
               <<"Model">>, <<"LicenseState">>, <<"TruckType">>, <<"SubsidiaryId">>,
               <<"Fleet", "Id">>, <<"Fleet", "Name">>, <<"FILE_ID">>})
    @@ Of("num", {<<"Year">>})
    @@ Of("obj", {<<"Fleet">>})
    @@ Of("date", {<<"CreatedAt">>})

\* str(t.get("Year")) if t.get("Year") is not None else None
YearStr(t) ==
    IF Get(t, <<"Year">>) # None THEN VStr(Str(Get(t, <<"Year">>))) ELSE None

sanitize_truck(t) ==
    [ID |-> Get(t, <<"Id">>),
     TRUCK_NUM |-> Get(t, <<"TruckNum">>),
     VIN_NUMBER |-> Get(t, <<"VinNumber">>),
     YEAR |-> YearStr(t),
     MAKE |-> Get(t, <<"Make">>),
     MODEL |-> Get(t, <<"Model">>),
     LICENSE_STATE |-> Get(t, <<"LicenseState">>),
     TRUCK_TYPE |-> Get(t, <<"TruckType">>),
     SUBSIDIARY_ID |-> Get(t, <<"SubsidiaryId">>),
     FLEET_ID |-> GetIn(t, <<"Fleet", "Id">>),
     FLEET_NAME |-> GetIn(t, <<"Fleet", "Name">>),
     CREATED_DTTM |-> safe_datetime(Get(t, <<"CreatedAt">>)),
     FILE_ID |-> Get(t, <<"FILE_ID">>)]

\* active_entities_insert.sanitize_truck: the same with TRUCK_STATUS
ae_sanitize_truck(t) ==
    [c \in DOMAIN sanitize_truck(t) \cup {"TRUCK_STATUS"} |->
        IF c = "TRUCK_STATUS" THEN Get(t, <<"Status">>) ELSE sanitize_truck(t)[c]]

TrailerSchema ==
    Of("str", {<<"Id">>, <<"TrailerNum">>, <<"TrailerType">>, <<"Status">>, <<"FILE_ID">>})
    @@ Of("date", {<<"CreatedAt">>})

sanitize_trailer(t) ==
    [ID |-> Get(t, <<"Id">>),
     TRAILER_NUM |-> Get(t, <<"TrailerNum">>),
     TRAILER_TYPE |-> Get(t, <<"TrailerType">>),
     TRAILER_STATUS |-> Get(t, <<"Status">>),
     CREATED_DTTM |-> safe_datetime(Get(t, <<"CreatedAt">>)),
     FILE_ID |-> Get(t, <<"FILE_ID">>)]

CustomerSchema ==
    Of("str", {<<"Id">>, <<"Name">>, <<"CompanyNumber">>, <<"Type">>, <<"Status">>,
               <<"BillingAddress", "Street">>, <<"BillingAddress", "City">>,
               <<"BillingAddress", "State">>, <<"BillingAddress", "ZipCode">>,
               <<"InvoicingInformation", "InvoicingName">>,
               <<"InvoicingInformation", "InvoicingNameAlias">>, <<"FILE_ID">>})
    @@ Of("obj", {<<"BillingAddress">>, <<"InvoicingInformation">>})
    @@ Of("date", {<<"DateCreated">>})

BillingKeys == <<"Street", "City", "State", "ZipCode">>

\* sep.join(parts): every part must be a str (TypeError otherwise)
RECURSIVE JoinText(_, _)
JoinText(sep, parts) ==
    IF Len(parts) = 0 THEN <<>>
    ELSE IF Len(parts) = 1 THEN parts[1].s
    ELSE parts[1].s \o sep \o JoinText(sep, Tail(parts))

Join(sep, parts) ==
    IF \E i \in 1..Len(parts) : parts[i].k # "str" THEN RAISE
    ELSE VStr(JoinText(sep, parts))

\* ", ".join([c.get("BillingAddress", {}).get(k, '') for k in (...)])
BillingAddress(c) ==
    Join(<<",", " ">>,
         [i \in 1..Len(BillingKeys) |->
             GetInOr(c, <<"BillingAddress", BillingKeys[i]>>, VStr(<<>>))])

sanitize_customer(c) ==
    [ID |-> Get(c, <<"Id">>),
     CUSTOMER_NAME |-> Get(c, <<"Name">>),
     COMPANY_NUMBER |-> Get(c, <<"CompanyNumber">>),
     CUSTOMER_TYPE |-> Get(c, <<"Type">>),
     CUSTOMER_STATUS |-> Get(c, <<"Status">>),
     BILLING_ADDRESS |-> BillingAddress(c),
     CREATED_DTTM |-> safe_datetime(Get(c, <<"DateCreated">>)),
     INVOICING_NAME |-> GetIn(c, <<"InvoicingInformation", "InvoicingName">>),
     INVOICING_ALIAS |-> GetIn(c, <<"InvoicingInformation", "InvoicingNameAlias">>),
     FILE_ID |-> Get(c, <<"FILE_ID">>)]

\* active_entities_insert.sanitize_customer: the address in discrete columns
ae_sanitize_customer(c) ==
    [ID |-> Get(c, <<"Id">>),
     CUSTOMER_NAME |-> Get(c, <<"Name">>),
     COMPANY_NUMBER |-> Get(c, <<"CompanyNumber">>),
     CUSTOMER_TYPE |-> Get(c, <<"Type">>),
     CUSTOMER_STATUS |-> Get(c, <<"Status">>),
     BILLING_ADDRESS |-> GetIn(c, <<"BillingAddress", "Street">>),
     CITY |-> GetIn(c, <<"BillingAddress", "City">>),
     STATE_PROVINCE |-> GetIn(c, <<"BillingAddress", "State">>),
     POSTAL_CD |-> GetIn(c, <<"BillingAddress", "ZipCode">>),
     INVOICING_NAME |-> GetIn(c, <<"InvoicingInformation", "InvoicingName">>),
     INVOICING_ALIAS |-> GetIn(c, <<"InvoicingInformation", "InvoicingNameAlias">>),
     CREATED_DTTM |-> safe_datetime(Get(c, <<"DateCreated">>)),
     FILE_ID |-> Get(c, <<"FILE_ID">>)]

CarrierSchema ==
    Of("str", {<<"Id">>, <<"Name">>, <<"ExternalName">>, <<"Address", "City">>,
               <<"Address", "State">>, <<"Address", "ZipCode">>, <<"McNum">>,
               <<"UsDotNum">>, <<"Type">>, <<"Status">>, <<"Source">>, <<"FILE_ID">>})
    @@ Of("obj", {<<"Address">>})
    @@ Of("date", {<<"UpdatedAt">>, <<"CreatedAt">>})

sanitize_carrier(c) ==
    [ID |-> Get(c, <<"Id">>),
     CARRIER_NAME |-> Get(c, <<"Name">>),
     EXTERNAL_NAME |-> Get(c, <<"ExternalName">>),
     CITY |-> GetIn(c, <<"Address", "City">>),
     ZIP |-> GetIn(c, <<"Address", "ZipCode">>),
     MC_NUM |-> Get(c, <<"McNum">>),
     US_DOT_NUM |-> Get(c, <<"UsDotNum">>),
     CARRIER_TYPE |-> Get(c, <<"Type">>),
     CARRIER_STATUS |-> Get(c, <<"Status">>),
     CARRIER_SOURCE |-> Get(c, <<"Source">>),
     UPDATED_DTTM |-> safe_datetime(Get(c, <<"UpdatedAt">>)),
     CREATED_DTTM |-> safe_datetime(Get(c, <<"CreatedAt">>)),
     FILE_ID |-> Get(c, <<"FILE_ID">>)]
    @@ ("STATE" :> GetIn(c, <<"Address", "State">>))   \* the column STATE

(***************************************************************************)
(* trips_insert: flatten_trip, flatten_stops and the part of build_dfs     *)
(* that makes the frames.  A flattened row is the list the function        *)
(* returns; pd.DataFrame(rows, columns=COLS) names its elements.           *)
(***************************************************************************)
TRIP_COLS ==
    <<"ID", "TRIP_NUMBER", "TRIP_STATUS", "LOAD_NUMBER", "TENDER_AS",
      "TOTAL_MILEAGE", "MILEAGE_SOURCE", "MILEAGE_PROFILE_NAME", "EMPTY_MILEAGE",
      "LOADED_MILEAGE", "PICKUP_DTTM", "DELIVERY_DTTM", "PICKED_UP_DTTM",
      "DELIVERED_DTTM", "CARRIER_ASSIGNED_DTTM", "RELEASED_DTTM", "TRIP_VALUE",
      "TRUCK_ID", "TRUCK_FLEET_ID", "TRUCK_FLEET_NAME", "TRAILER_ID",
      "TRAILER_TYPE", "DRIVER1_ID", "DRIVER1_TYPE", "DRIVER1_FLEET_ID",
      "DRIVER2_ID", "DRIVER2_TYPE", "DRIVER2_FLEET_ID", "OWNER_OPERATOR_ID",
      "RELEASED_BY", "DISPATCHED_BY", "DISPATCHER_ID", "IS_CARRIER_PAY_ON_HOLD",
      "CARRIER_ID", "CARRIER_INVOICE", "CARRIER_RATE", "CARRIER_LINEHAUL",
      "CARRIER_FUEL", "CARRIER_ACCESSORIALS", "CARRIER_TOTAL_PAYABLE",
      "UPDATED_DTTM", "FILE_ID", "INSERTED_DTTM">>

STOP_COLS ==
    <<"ID", "TRIP_ID", "TRIP_NUMBER", "STOP_SEQUENCE", "IS_APPOINTMENT_REQUESTED",
      "IS_APPOINTMENT_CONFIRMED", "EARLIEST_APPOINTMENT_DTTM", "LATEST_APPOINTMENT_DTTM",
      "STREET_ADDRESS", "CITY", "STATE_PROVINCE", "POSTAL_CD", "LATITUDE", "LONGITUDE",
      "STOP_STATUS", "STOP_TYPE", "STOP_SCHEDULE_TYPE", "LOADING_TYPE",
      "ARRIVED_DTTM", "DEPARTED_DTTM", "FILE_ID", "INSERTED_DTTM">>

datetime_trip_cols ==
    {"PICKUP_DTTM", "DELIVERY_DTTM", "PICKED_UP_DTTM", "DELIVERED_DTTM",
     "CARRIER_ASSIGNED_DTTM", "RELEASED_DTTM", "UPDATED_DTTM"}

datetime_stop_cols ==
    {"EARLIEST_APPOINTMENT_DTTM", "LATEST_APPOINTMENT_DTTM", "ARRIVED_DTTM",
     "DEPARTED_DTTM"}

TripSchema ==
    Of("str", {<<"Id">>, <<"TripNumber">>, <<"Status">>, <<"LoadNumber">>, <<"TenderAs">>,
               <<"TotalMileage", "Source">>, <<"TotalMileage", "ProfileName">>,
               <<"Truck", "Id">>, <<"Truck", "Fleet", "Id">>, <<"Truck", "Fleet", "Name">>,
               <<"Trailer", "Id">>, <<"Trailer", "EquipmentType">>,
               <<"Driver1", "Id">>, <<"Driver1", "ContractorType">>,
               <<"Driver1", "Fleet", "Id">>,
               <<"Driver2", "Id">>, <<"Driver2", "ContractorType">>,
               <<"Driver2", "Fleet", "Id">>,
               <<"OwnerOperator", "Id">>, <<"ReleasedBy">>, <<"DispatchedBy">>,
               <<"DispatcherId">>, <<"Carrier", "Id">>,
               <<"Carrier", "CarrierInvoiceNumber">>, <<"FILE_ID">>})
    @@ Of("num", {<<"TotalMileage", "Distance", "Value">>,
                  <<"EmptyMileage", "Distance", "Value">>,
                  <<"LoadedMileage", "Distance", "Value">>,
                  <<"TripValue", "Amount">>, <<"Carrier", "Rate", "Amount">>,
                  <<"Carrier", "Linehaul", "Amount">>, <<"Carrier", "Fuel", "Amount">>,
                  <<"Carrier", "Accessorials", "Amount">>,
                  <<"Carrier", "TotalPayable", "Amount">>})
    @@ Of("date", {<<"PickupDate">>, <<"DeliveryDate">>, <<"PickedUpAt">>,
                   <<"DeliveredAt">>, <<"CarrierAssignedAt">>, <<"ReleasedAt">>,
                   <<"UpdatedAt">>})
    @@ Of("bool", {<<"CarrierPayOnHold">>})
    @@ Of("obj", {<<"TotalMileage">>, <<"TotalMileage", "Distance">>,
                  <<"EmptyMileage">>, <<"EmptyMileage", "Distance">>,
                  <<"LoadedMileage">>, <<"LoadedMileage", "Distance">>,
                  <<"TripValue">>, <<"Truck">>, <<"Truck", "Fleet">>, <<"Trailer">>,
                  <<"Driver1">>, <<"Driver1", "Fleet">>, <<"Driver2">>,
                  <<"Driver2", "Fleet">>, <<"OwnerOperator">>, <<"Carrier">>,
                  <<"Carrier", "Rate">>, <<"Carrier", "Linehaul">>, <<"Carrier", "Fuel">>,
                  <<"Carrier", "Accessorials">>, <<"Carrier", "TotalPayable">>})
    @@ Of("list", {<<"Stops">>})

StopSchema ==
    Of("str", {<<"Id">>, <<"Address", "Street">>, <<"Address", "City">>,
               <<"Address", "State">>, <<"Address", "ZipCode">>, <<"Status">>,
               <<"StopType">>, <<"ScheduleType">>, <<"LoadingType">>})
    @@ Of("num", {<<"Coordinates", "Latitude">>, <<"Coordinates", "Longitude">>})
    @@ Of("date", {<<"AppointmentDate">>, <<"StopWindow", "Begin">>,
                   <<"StopWindow", "End">>, <<"ArrivedAt">>, <<"DepartedAt">>})
    @@ Of("bool", {<<"AppointmentRequested">>, <<"AppointmentConfirmed">>})
    @@ Of("obj", {<<"Address">>, <<"Coordinates">>, <<"StopWindow">>})

\* RUN_TS: read from the clock once, when the module is imported
RUN_TS == VDatetime(<<"R">>)

flatten_trip(trip, file_id) ==
    <<s_(Get(trip, <<"Id">>), S100),
      s_(Get(trip, <<"TripNumber">>), S100),
      s_(Get(trip, <<"Status">>), S50),
      s_(Get(trip, <<"LoadNumber">>), S100),
      s_(Get(trip, <<"TenderAs">>), S50),
      f_(g(trip, <<"TotalMileage", "Distance", "Value">>)),
      s_(g(trip, <<"TotalMileage", "Source">>), S50),
      s_(g(trip, <<"TotalMileage", "ProfileName">>), S100),
      f_(g(trip, <<"EmptyMileage", "Distance", "Value">>)),
      f_(g(trip, <<"LoadedMileage", "Distance", "Value">>)),
      Get(trip, <<"PickupDate">>),
      Get(trip, <<"DeliveryDate">>),
      Get(trip, <<"PickedUpAt">>),
      Get(trip, <<"DeliveredAt">>),
      Get(trip, <<"CarrierAssignedAt">>),
      Get(trip, <<"ReleasedAt">>),
      f_(g(trip, <<"TripValue", "Amount">>)),
      s_(g(trip, <<"Truck", "Id">>), S100),
      s_(g(trip, <<"Truck", "Fleet", "Id">>), S100),
      s_(g(trip, <<"Truck", "Fleet", "Name">>), S100),
      s_(g(trip, <<"Trailer", "Id">>), S100),
      s_(g(trip, <<"Trailer", "EquipmentType">>), S50),
      s_(g(trip, <<"Driver1", "Id">>), S100),
      s_(g(trip, <<"Driver1", "ContractorType">>), S50),
      s_(g(trip, <<"Driver1", "Fleet", "Id">>), S100),
      s_(g(trip, <<"Driver2", "Id">>), S100),
      s_(g(trip, <<"Driver2", "ContractorType">>), S50),
      s_(g(trip, <<"Driver2", "Fleet", "Id">>), S100),
      s_(g(trip, <<"OwnerOperator", "Id">>), S100),
      s_(Get(trip, <<"ReleasedBy">>), S100),
      s_(Get(trip, <<"DispatchedBy">>), S100),
      s_(Get(trip, <<"DispatcherId">>), S100),
      PyInt(Or(Get(trip, <<"CarrierPayOnHold">>), VFalse)),
      s_(g(trip, <<"Carrier", "Id">>), S100),
      s_(g(trip, <<"Carrier", "CarrierInvoiceNumber">>), S100),
      f_(g(trip, <<"Carrier", "Rate", "Amount">>)),
      f_(g(trip, <<"Carrier", "Linehaul", "Amount">>)),
      f_(g(trip, <<"Carrier", "Fuel", "Amount">>)),
      f_(g(trip, <<"Carrier", "Accessorials", "Amount">>)),
      f_(g(trip, <<"Carrier", "TotalPayable", "Amount">>)),
      Get(trip, <<"UpdatedAt">>),
      file_id,
      RUN_TS>>

\* str(n) for n >= 0
RECURSIVE Digits(_)
Digits(n) ==
    LET d == <<"0", "1", "2", "3", "4", "5", "6", "7", "8", "9">>[(n % 10) + 1]
    IN IF n < 10 THEN <<d>> ELSE Digits(n \div 10) \o <<d>>

\* f"{trip_id}_{seq}"
SyntheticIdMutZeroBased(trip_id, seq) == VStr(Str(trip_id) \o <<"_">> \o Digits(seq - 1))

SyntheticIdMutNoSeq(trip_id, seq) == VStr(Str(trip_id) \o <<"_">>)

SyntheticId(trip_id, seq) == VStr(Str(trip_id) \o <<"_">> \o Digits(seq))

\* The list flatten_stops appends for the stop at position seq; a stop is
\* [v |-> the list element, f |-> its keys when it is a dict].  An element
\* that is no dict has no .get (AttributeError).
StopRow(trip, stop, seq, file_id) ==
    LET trip_id == s_(Get(trip, <<"Id">>), S100)
        trip_num == s_(Get(trip, <<"TripNumber">>), S100)
        s == stop.f
        earliest == Or(Get(s, <<"AppointmentDate">>), g(s, <<"StopWindow", "Begin">>))
        latest == IF TruthyAt(s, <<"StopWindow">>)
                  THEN g(s, <<"StopWindow", "End">>) ELSE None
    IN IF stop.v.k # "dict" THEN <<RAISE>>
       ELSE
       <<s_(Or(Get(s, <<"Id">>), SyntheticId(trip_id, seq)), S100),
         trip_id,
         trip_num,
         VInt(Digits(seq)),
         PyInt(Or(Get(s, <<"AppointmentRequested">>), VFalse)),
         PyInt(Or(Get(s, <<"AppointmentConfirmed">>), VFalse)),
         earliest,
         latest,
         s_(GetIn(s, <<"Address", "Street">>), S200),
         s_(GetIn(s, <<"Address", "City">>), S100),
         s_(GetIn(s, <<"Address", "State">>), S50),
         s_(GetIn(s, <<"Address", "ZipCode">>), S20),
         f_(GetIn(s, <<"Coordinates", "Latitude">>)),
         f_(GetIn(s, <<"Coordinates", "Longitude">>)),
         s_(Get(s, <<"Status">>), S50),
         s_(Get(s, <<"StopType">>), S50),
         s_(Get(s, <<"ScheduleType">>), S50),
         s_(Get(s, <<"LoadingType">>), S50),
         Get(s, <<"ArrivedAt">>),
         Get(s, <<"DepartedAt">>),
         file_id,
         RUN_TS>>

\* enumerate(trip.get("Stops", []), 1): what is iterated.  `stops` is the
\* content of the list when the key holds one; a missing key and an empty
\* str iterate nothing; a non-empty str or dict iterates strs (no .get) and
\* None, a number or a bool is not iterable: these end in an exception.
NotIterable == <<[v |-> None, f |-> Empty(StopSchema)]>>

StopsIterated(trip, stops) ==
    LET st == trip[<<"Stops">>]
    IN CASE st = ABSENT -> <<>>
         [] st.k = "list" -> stops
         [] st = VStr(<<>>) -> <<>>
         [] OTHER -> NotIterable

flatten_stops(trip, stops, file_id) ==
    LET its == StopsIterated(trip, stops)
    IN [seq \in 1..Len(its) |-> StopRow(trip, its[seq], seq, file_id)]

\* An exception raised while a row is built
Raised(row) == \E i \in DOMAIN row : row[i].k = "RAISE"

\* pd.DataFrame(rows, columns=cols) followed by df[dt_cols].apply(_dt): the
\* row as a mapping from column names, the datetime columns parsed.
Frame(cols, dt_cols, row) ==
    [c \in {cols[i] : i \in DOMAIN cols} |->
        LET v == row[CHOOSE i \in DOMAIN cols : cols[i] = c]
        IN IF c \in dt_cols THEN dt_(v) ELSE v]

(***************************************************************************)
(* The sanitizer specification: one call of one sanitizer on one record.   *)
(***************************************************************************)
NotCalled == [called |-> FALSE, raised |-> FALSE, rows |-> <<>>, stops |-> <<>>]

FlatEntities ==
    {"driver", "truck", "ae_truck", "trailer", "customer", "ae_customer", "carrier"}

SchemaOf(e) ==
    CASE e = "driver" -> DriverSchema
      [] e \in {"truck", "ae_truck"} -> TruckSchema
      [] e = "trailer" -> TrailerSchema
      [] e \in {"customer", "ae_customer"} -> CustomerSchema
      [] e = "carrier" -> CarrierSchema
      [] OTHER -> TripSchema

\* The identifiers tried for a trip and for a stop
IdStates ==
    {ABSENT, None, VStr(<<>>), VStr(<<"a">>), VStr(<<"b">>), VStr(<<" ", "a", " ">>),
     VStr(<<"a", "_", "1">>), VStr(LongText), VInt(<<"7">>)}

DictStop(f) == [v |-> VDict, f |-> f]

\* Stop lists of up to MaxStops complete stops that differ in their Id
StopLists ==
    UNION {[1..n -> {DictStop([Full(StopSchema) EXCEPT ![<<"Id">>] = i]) : i \in IdStates}] :
             n \in 0..MaxStops}

TripRecords ==
    \* a trip in every variant, its stop list (when it has one) empty
    {[f |-> t, stops |-> <<>>] : t \in Variants(TripSchema)}
    \* a complete trip, its Id in every state, with a list of stops
    \cup {[f |-> [Full(TripSchema) EXCEPT ![<<"Id">>] = i], stops |-> sl] :
             i \in IdStates, sl \in StopLists}
    \* a complete trip with one stop in every variant
    \cup {[f |-> Full(TripSchema), stops |-> <<DictStop(sv)>>] : sv \in Variants(StopSchema)}
    \* a complete trip whose stop list holds an element that is no dict
    \cup {[f |-> Full(TripSchema), stops |-> <<[v |-> x, f |-> Empty(StopSchema)]>>] :
             x \in {None, VInt(<<"7">>), VStr(<<"a">>)}}

SanInit ==
    /\ ent \in FlatEntities \cup {"trip"}
    /\ IF ent = "trip" THEN rec \in TripRecords
       ELSE rec \in {[f |-> v, stops |-> <<>>] : v \in Variants(SchemaOf(ent))}
    /\ out = NotCalled

SanIdle == ent = "none" /\ rec = <<>> /\ out = NotCalled

Returned(row) ==
    [called |-> TRUE, raised |-> Raised(row),
     rows |-> IF Raised(row) THEN <<>> ELSE <<row>>, stops |-> <<>>]

Sanitize(e, row) ==
    /\ ent = e
    /\ ~out.called
    /\ out' = Returned(row)
    /\ UNCHANGED <<ent, rec>>

SanitizeDriver == Sanitize("driver", sanitize_driver(rec.f))
SanitizeTruck == Sanitize("truck", sanitize_truck(rec.f))
SanitizeTruckAE == Sanitize("ae_truck", ae_sanitize_truck(rec.f))
SanitizeTrailer == Sanitize("trailer", sanitize_trailer(rec.f))
SanitizeCustomer == Sanitize("customer", sanitize_customer(rec.f))
SanitizeCustomerAE == Sanitize("ae_customer", ae_sanitize_customer(rec.f))
SanitizeCarrier == Sanitize("carrier", sanitize_carrier(rec.f))

\* build_dfs for a snapshot file that holds the one trip `rec`: file_id is
\* read from the first record, the trip and its stops are flattened, the
\* frames are made and their datetime columns parsed.
BuildTrip ==
    /\ ent = "trip"
    /\ ~out.called
    /\ LET file_id == s_(Get(rec.f, <<"FILE_ID">>), S50)
           trow == flatten_trip(rec.f, file_id)
           srows == flatten_stops(rec.f, rec.stops, file_id)
           bad == \/ Raised(trow)
                  \/ \E i \in DOMAIN srows : Raised(srows[i])
                  \/ Len(trow) # Len(TRIP_COLS)
                  \/ \E i \in DOMAIN srows : Len(srows[i]) # Len(STOP_COLS)
       IN out' = IF bad THEN [called |-> TRUE, raised |-> TRUE, rows |-> <<>>, stops |-> <<>>]
                 ELSE [called |-> TRUE, raised |-> FALSE,
                       rows |-> <<Frame(TRIP_COLS, datetime_trip_cols, trow)>>,
                       stops |-> [i \in DOMAIN srows |->
                                    Frame(STOP_COLS, datetime_stop_cols, srows[i])]]
    /\ UNCHANGED <<ent, rec>>

SanNext ==
    \/ SanitizeDriver /\ UNCHANGED NotSan
    \/ SanitizeTruck /\ UNCHANGED NotSan
    \/ SanitizeTruckAE /\ UNCHANGED NotSan
    \/ SanitizeTrailer /\ UNCHANGED NotSan
    \/ SanitizeCustomer /\ UNCHANGED NotSan
    \/ SanitizeCustomerAE /\ UNCHANGED NotSan
    \/ SanitizeCarrier /\ UNCHANGED NotSan
    \/ BuildTrip /\ UNCHANGED NotSan

----------------------------------------------------------------------------
(***************************************************************************)
(* The snapshot store.  A raw record is [k |-> its position in the fetch]; *)
(* the export adds FILE_ID.  The text of a file is a sequence of tokens.   *)
(***************************************************************************)
\* Entities saved under <ENTITY>.json and under <ENTITY>_API_<range>.json
WholeEntities == {"drivers", "trucks", "trailers", "customers", "carriers"}
PartitionedEntities == {"trips", "loads", "invoices"}
\* main.ENTITIES
ENTITIES == {"loads", "trips", "invoices", "drivers", "trucks", "trailers", "customers"}

\* format_range(start, end) of two date windows: W2 is the window of the
\* current run, W1 an earlier one.
Windows == {"W1", "W2"}

\* The file name the export gives entity e for window wdw
FileName(e, wdw) == IF e \in PartitionedEntities THEN <<e, wdw>> ELSE <<e>>

AllFiles == {FileName(e, wdw) : e \in WholeEntities \cup PartitionedEntities, wdw \in Windows}

NoFile == <<>>

\* The list fetch_paginated_data returns when the API holds n records
Items(n) == [i \in 1..n |-> [k |-> i]]

\* get_file_id(): the clock formatted down to the millisecond
get_file_id(now) == now \div TicksPerMs

\* for rec in data: rec["FILE_ID"] = file_id
TaggedMutPerRecord(data, file_id) ==
    [i \in DOMAIN data |-> [k |-> data[i].k, FILE_ID |-> file_id + i - 1]]

Tagged(data, file_id) == [i \in DOMAIN data |-> [k |-> data[i].k, FILE_ID |-> file_id]]

\* One decimal digit as a character, and back
Dig(n) == Digits(n)[1]
DigitOf(c) == CHOOSE n \in 0..9 : Dig(n) = c

\* json.dump(data, f, indent=2) for a list of tagged records
RECURSIVE DumpItems(_)
DumpItems(data) ==
    IF data = <<>> THEN <<>>
    ELSE <<"{", Dig(Head(data).k), Dig(Head(data).FILE_ID), "}">>
         \o (IF Tail(data) = <<>> THEN <<>> ELSE <<",">> \o DumpItems(Tail(data)))

Dump(data) == <<"[">> \o DumpItems(data) \o <<"]">>

\* json.load(f): [ok |-> parsed, v |-> the list]; text that is no JSON
\* document raises json.JSONDecodeError.
ParseError == [ok |-> FALSE, v |-> <<>>]

RECURSIVE ParseItems(_)
ParseItems(t) ==
    IF Len(t) >= 5 /\ t[1] = "{" /\ t[2] \in Digit /\ t[3] \in Digit /\ t[4] = "}"
    THEN LET r == [k |-> DigitOf(t[2]), FILE_ID |-> DigitOf(t[3])]
             rest == ParseItems(SubSeq(t, 6, Len(t)))
         IN IF t[5] = "]" THEN (IF Len(t) = 5 THEN [ok |-> TRUE, v |-> <<r>>] ELSE ParseError)
            ELSE IF t[5] = "," /\ rest.ok THEN [ok |-> TRUE, v |-> <<r>> \o rest.v]
            ELSE ParseError
    ELSE ParseError

Parse(t) ==
    IF t = <<"[", "]">> THEN [ok |-> TRUE, v |-> <<>>]
    ELSE IF t # <<>> /\ Head(t) = "[" THEN ParseItems(Tail(t))
    ELSE ParseError

\* open(filepath, "w") followed by the write: what the file holds afterwards
OpenWMutAppend(old, text) == old \o text

OpenW(old, text) == text

\* save_json(data, filename): the new text of the file
save_json(old, data) == OpenW(old, Dump(data))

\* load_json(filename) on the text of an existing file
load_json(text) == Parse(text)

NeverWritten == [ok |-> FALSE, v |-> <<>>]
NoSave == [f |-> <<>>, replaced |-> FALSE]
NotLoaded == [called |-> FALSE, f |-> <<>>, ok |-> FALSE, v |-> <<>>]

StoreIdle ==
    /\ entity = "none"
    /\ clock = 0
    /\ files = [f \in AllFiles |-> NoFile]

SnapIdle ==
    /\ written = [f \in AllFiles |-> NeverWritten]
    /\ lastSave = NoSave
    /\ loaded = NotLoaded

\* The data directory is empty; the run exports one entity.
SnapInit ==
    /\ entity \in WholeEntities \cup PartitionedEntities
    /\ clock = 0
    /\ files = [f \in AllFiles |-> NoFile]
    /\ SnapIdle

\* Time passes.
Tick ==
    /\ clock < MaxClock
    /\ clock' = clock + 1

\* The export of the entity for window wdw when the fetch returns n records:
\* the records are tagged with a fresh FILE_ID and the snapshot is saved.
ExportEntity(wdw, n) ==
    LET data == Tagged(Items(n), get_file_id(clock))
        f == FileName(entity, wdw)
    IN /\ files' = [files EXCEPT ![f] = save_json(files[f], data)]
       /\ written' = [written EXCEPT ![f] = [ok |-> TRUE, v |-> data]]
       /\ lastSave' = [f |-> f, replaced |-> files[f] \notin {NoFile, Dump(data)}]
       /\ UNCHANGED <<entity, clock, loaded>>

\* load_json of an existing snapshot file of the entity
LoadJson(wdw) ==
    LET f == FileName(entity, wdw)
        l == load_json(files[f])
    IN /\ files[f] # NoFile
       /\ loaded' = [called |-> TRUE, f |-> f, ok |-> l.ok, v |-> l.v]
       /\ UNCHANGED <<entity, clock, files, written, lastSave>>

SnapNext ==
    \/ Tick /\ UNCHANGED <<entity, files, snapVars>> /\ UNCHANGED NotSnap
    \/ (\E wdw \in Windows, n \in 0..MaxItems : ExportEntity(wdw, n)) /\ UNCHANGED NotSnap
    \/ (\E wdw \in Windows : LoadJson(wdw)) /\ UNCHANGED NotSnap

----------------------------------------------------------------------------
(***************************************************************************)
(* The batch writers and the insert run.  A row is the sanitized record    *)
(* reduced to what the writers add to or carry through: its position k,    *)
(* FILE_ID and INSERTED_DTTM (the sanitizers themselves are modelled       *)
(* above).                                                                 *)
(***************************************************************************)
Tables ==
    {"TRAILERS_RAW", "TRUCKS_RAW", "DRIVERS_RAW", "CUSTOMERS_RAW", "CARRIERS_RAW",
     "TRIPS_RAW", "TRIP_STOPS_RAW"}

\* The table main() of alvys_insert / active_entities_insert writes entity e to
TableOf(e) ==
    CASE e = "trailers" -> "TRAILERS_RAW"
      [] e = "trucks" -> "TRUCKS_RAW"
      [] e = "drivers" -> "DRIVERS_RAW"
      [] e = "customers" -> "CUSTOMERS_RAW"
      [] OTHER -> "CARRIERS_RAW"

\* The modules importlib finds under inserts/ as inserts.<ent>_insert
InsertModules == {"trips", "active_entities"}

\* A row the warehouse holds from an earlier run
OldRow == [k |-> 0, FILE_ID |-> 0, INSERTED_DTTM |-> 0]

NotImported == -1
NoWrite == [table |-> "none", kind |-> "none", rows |-> <<>>, i |-> 0, ts |-> NotImported]

\* The snapshots an export can have left in a file
SnapshotTexts == {NoFile} \cup {Dump(Tagged(Items(n), 0)) : n \in 0..MaxItems}

\* clean = [sanitize(rec) for rec in records]
Clean(records) == [i \in DOMAIN records |-> records[i]]

\* for rec in records: rec["INSERTED_DTTM"] = inserted_dttm
StampMutPerRow(records, inserted_dttm) ==
    [i \in DOMAIN records |->
        [k |-> records[i].k, FILE_ID |-> records[i].FILE_ID,
         INSERTED_DTTM |-> inserted_dttm + i - 1]]

Stamp(records, inserted_dttm) ==
    [i \in DOMAIN records |->
        [k |-> records[i].k, FILE_ID |-> records[i].FILE_ID,
         INSERTED_DTTM |-> inserted_dttm]]

\* The stops of the trip at position k of a snapshot: the first trip has
\* none, the k-th has k - 1.
NStops(k) == k - 1

\* build_dfs: the TRIPS_API_* files in sorted order, empty ones skipped;
\* every row of a file gets the FILE_ID of the file's first record.
TripFiles == <<FileName("trips", "W1"), FileName("trips", "W2")>>

FileData(f) == IF files[f] = NoFile THEN <<>> ELSE load_json(files[f]).v

TripRowsOfMutRunTs(data, ts) ==
    [i \in DOMAIN data |-> [k |-> data[i].k, FILE_ID |-> ts, INSERTED_DTTM |-> ts]]

TripRowsOf(data, ts) ==
    [i \in DOMAIN data |->
        [k |-> data[i].k, FILE_ID |-> data[1].FILE_ID, INSERTED_DTTM |-> ts]]

RECURSIVE StopRowsOf(_, _, _)
StopRowsOf(data, first, ts) ==
    IF data = <<>> THEN <<>>
    ELSE [seq \in 1..NStops(Head(data).k) |->
             [k |-> Head(data).k, seq |-> seq, FILE_ID |-> first.FILE_ID,
              INSERTED_DTTM |-> ts]]
         \o StopRowsOf(Tail(data), first, ts)

trip_rows(ts) ==
    TripRowsOf(FileData(TripFiles[1]), ts) \o TripRowsOf(FileData(TripFiles[2]), ts)

stop_rows(ts) ==
    LET d1 == FileData(TripFiles[1])
        d2 == FileData(TripFiles[2])
    IN (IF d1 = <<>> THEN <<>> ELSE StopRowsOf(d1, d1[1], ts))
       \o (IF d2 = <<>> THEN <<>> ELSE StopRowsOf(d2, d2[1], ts))

\* The rows one statement carries
ChunkSizeMutOneMore(kind) == (IF kind = "batch" THEN BATCH_SIZE ELSE CHUNK_SIZE) + 1

ChunkSize(kind) == IF kind = "batch" THEN BATCH_SIZE ELSE CHUNK_SIZE

WriteIdle ==
    /\ run = [pc |-> "idle", via |-> "none"]
    /\ todo = <<>>
    /\ w = NoWrite
    /\ sent = <<>>
    /\ tables = [t \in Tables |-> <<OldRow>>]
    /\ stmts = [t \in Tables |-> 0]
    /\ commits = [t \in Tables |-> 0]
    /\ called = [t \in Tables |-> "none"]
    /\ run_ts = NotImported

\* An export has left snapshots of the entity in the data directory (or
\* none); nothing has been inserted yet.
WriteInit ==
    /\ entity \in WholeEntities \cup PartitionedEntities
    /\ clock = 0
    /\ \E earlier \in SnapshotTexts, current \in SnapshotTexts :
          files = [f \in AllFiles |->
                      IF f[1] # entity THEN NoFile
                      ELSE IF f = FileName(entity, "W2") THEN current ELSE earlier]
    /\ WriteIdle

\* main() of alvys_insert / active_entities_insert, the section of the
\* entity: the snapshot is loaded and sanitized and handed to batch_insert.
\* A missing file is a FileNotFoundError.
ScriptMain ==
    /\ run.pc = "idle"
    /\ entity \in WholeEntities
    /\ LET text == files[FileName(entity, "W2")]
       IN IF text = NoFile \/ ~load_json(text).ok
          THEN /\ run' = [pc |-> "fatal", via |-> "script"]
               /\ todo' = todo
          ELSE /\ run' = [pc |-> "call", via |-> "script"]
               /\ todo' = <<[table |-> TableOf(entity), kind |-> "batch",
                             rows |-> Clean(load_json(text).v)]>>
    /\ UNCHANGED <<storeVars, w, sent, tables, stmts, commits, called, run_ts>>

\* main.run_insert for the entity: the module inserts.<ent>_insert is
\* imported (sys.exit when there is none); importing trips_insert reads
\* the clock into RUN_TS.
RunInsert ==
    /\ run.pc = "idle"
    /\ entity \in ENTITIES
    /\ IF entity \in InsertModules
       THEN /\ run' = [pc |-> "imported", via |-> "cli"]
            /\ run_ts' = clock
       ELSE /\ run' = [pc |-> "fatal", via |-> "cli"]
            /\ run_ts' = run_ts
    /\ UNCHANGED <<storeVars, todo, w, sent, tables, stmts, commits, called>>

\* trips_insert.main: build_dfs, then the two frames go to bulk_insert.
BuildDfs ==
    /\ run.pc = "imported"
    /\ todo' = <<[table |-> "TRIPS_RAW", kind |-> "bulk", rows |-> trip_rows(run_ts)],
                 [table |-> "TRIP_STOPS_RAW", kind |-> "bulk", rows |-> stop_rows(run_ts)]>>
    /\ run' = [run EXCEPT !.pc = "call"]
    /\ UNCHANGED <<storeVars, w, sent, tables, stmts, commits, called, run_ts>>

\* batch_insert / bulk_insert is entered with the next frame: an empty one
\* returns at once; otherwise batch_insert reads the clock and stamps the
\* rows (the rows of bulk_insert carry RUN_TS already).
BeginWrite ==
    /\ run.pc = "call"
    /\ todo # <<>>
    /\ LET fr == Head(todo)
       IN IF fr.rows = <<>>
          THEN /\ called' = [called EXCEPT ![fr.table] = "empty"]
               /\ run' = [run EXCEPT !.pc = IF Tail(todo) = <<>> THEN "done" ELSE "call"]
               /\ w' = w
          ELSE /\ called' = [called EXCEPT ![fr.table] = "rows"]
               /\ run' = [run EXCEPT !.pc = "writing"]
               /\ w' = [table |-> fr.table, kind |-> fr.kind,
                        rows |-> IF fr.kind = "batch" THEN Stamp(fr.rows, clock) ELSE fr.rows,
                        i |-> 0,
                        ts |-> IF fr.kind = "batch" THEN clock ELSE run_ts]
    /\ todo' = Tail(todo)
    /\ UNCHANGED <<storeVars, sent, tables, stmts, commits, run_ts>>

\* cursor.executemany(insert_sql, batch) / one chunk of to_sql
SendChunk ==
    /\ run.pc = "writing"
    /\ w.i < Len(w.rows)
    /\ sent' = sent \o SubSeq(w.rows, w.i + 1, Min(w.i + ChunkSize(w.kind), Len(w.rows)))
    /\ stmts' = [stmts EXCEPT ![w.table] = @ + 1]
    /\ w' = [w EXCEPT !.i = @ + ChunkSize(w.kind)]
    /\ UNCHANGED <<storeVars, run, todo, tables, commits, called, run_ts>>

\* conn.commit() / the end of to_sql's transaction, after the last chunk
Commit ==
    /\ run.pc = "writing"
    /\ w.i >= Len(w.rows)
    /\ tables' = [tables EXCEPT ![w.table] = @ \o sent]
    /\ sent' = <<>>
    /\ commits' = [commits EXCEPT ![w.table] = @ + 1]
    /\ run' = [run EXCEPT !.pc = IF todo = <<>> THEN "done" ELSE "call"]
    /\ UNCHANGED <<storeVars, todo, w, stmts, called, run_ts>>

\* What the warehouse holds of the rows sent but not committed once the
\* connection goes away: get_conn / get_engine leave autocommit off, so the
\* open transaction is rolled back.
CloseUncommittedMutAutocommit(tbls, t, pending) == [tbls EXCEPT ![t] = @ \o pending]

CloseUncommitted(tbls, t, pending) == tbls

\* Where main() goes on after batch_insert / bulk_insert raised with the
\* frames `rest` still to write: nothing catches the exception.
AfterFailureMutContinue(rest) == IF rest = <<>> THEN "fatal" ELSE "call"

AfterFailure(rest) == "fatal"

\* cursor.executemany / a chunk of to_sql raises (constraint violation,
\* lost connection, ...): the exception leaves the write and main() without
\* a commit, and the process ends.
FailChunk ==
    /\ run.pc = "writing"
    /\ w.i < Len(w.rows)
    /\ stmts' = [stmts EXCEPT ![w.table] = @ + 1]
    /\ tables' = CloseUncommitted(tables, w.table, sent)
    /\ sent' = <<>>
    /\ called' = [called EXCEPT ![w.table] = "failed"]
    /\ run' = [run EXCEPT !.pc = AfterFailure(todo)]
    /\ UNCHANGED <<storeVars, todo, w, commits, run_ts>>

\* The sections of main() of alvys_insert / active_entities_insert in order
ScriptOrder == <<"trailers", "trucks", "drivers", "customers", "carriers">>

\* A run over several tables: the stand-alone script without arguments
\* (entity "all": every snapshot is there, empty or with records), or the
\* trips module with its two tables.
WriteAllInit ==
    /\ clock = 0
    /\ \/ /\ entity = "all"
          /\ \E n \in [WholeEntities -> {0, MaxItems}] :
                files = [f \in AllFiles |->
                            IF f[1] \in WholeEntities
                            THEN Dump(Tagged(Items(n[f[1]]), 0)) ELSE NoFile]
       \/ /\ entity = "trips"
          /\ \E earlier \in SnapshotTexts, current \in SnapshotTexts :
                files = [f \in AllFiles |->
                            IF f[1] # entity THEN NoFile
                            ELSE IF f = FileName(entity, "W2") THEN current ELSE earlier]
    /\ WriteIdle

\* main() of alvys_insert / active_entities_insert with run_all: one
\* section per entity in ScriptOrder, each loading its snapshot and handing
\* it to batch_insert on the one connection.  (The snapshots do not change
\* during the run, so the frames are listed up front.)
ScriptMainAll ==
    /\ run.pc = "idle"
    /\ entity = "all"
    /\ run' = [pc |-> "call", via |-> "script"]
    /\ todo' = [i \in DOMAIN ScriptOrder |->
                   [table |-> TableOf(ScriptOrder[i]), kind |-> "batch",
                    rows |-> Clean(load_json(files[FileName(ScriptOrder[i], "W2")]).v)]]
    /\ UNCHANGED <<storeVars, w, sent, tables, stmts, commits, called, run_ts>>

WriteAllNext ==
    \/ ScriptMainAll /\ UNCHANGED NotWrite
    \/ RunInsert /\ UNCHANGED NotWrite
    \/ BuildDfs /\ UNCHANGED NotWrite
    \/ BeginWrite /\ UNCHANGED NotWrite
    \/ SendChunk /\ UNCHANGED NotWrite
    \/ Commit /\ UNCHANGED NotWrite
    \/ FailChunk /\ UNCHANGED NotWrite
    \/ Tick /\ UNCHANGED <<entity, files, wrVars>> /\ UNCHANGED NotWrite

WriteNext ==
    \/ FailChunk /\ UNCHANGED NotWrite
    \/ Tick /\ UNCHANGED <<entity, files, wrVars>> /\ UNCHANGED NotWrite
    \/ ScriptMain /\ UNCHANGED NotWrite
    \/ RunInsert /\ UNCHANGED NotWrite
    \/ BuildDfs /\ UNCHANGED NotWrite
    \/ BeginWrite /\ UNCHANGED NotWrite
    \/ SendChunk /\ UNCHANGED NotWrite
    \/ Commit /\ UNCHANGED NotWrite

----------------------------------------------------------------------------
(***************************************************************************)
(* utils.dates.  An instant is a number of milliseconds since the epoch    *)
(* (1970-01-01T00:00 UTC, a Thursday); a day has TicksPerDay of them.      *)
(***************************************************************************)
DaysPerWeek == 7
\* datetime.weekday() of the epoch day: Monday is 0, so Thursday is 3
EpochWeekday == 3
Monday == 0
Saturday == 5
Sunday == 6

\* The values handed in as `reference`
DtNone == [k |-> "None", t |-> 0]
Dt(t) == [k |-> "datetime", t |-> t]
IntArg(n) == [k |-> "int", t |-> n]

Instants == 0..((MaxDay + 1) * TicksPerDay - 1)

\* ref.weekday() in UTC
weekday(t) == ((t \div TicksPerDay) + EpochWeekday) % DaysPerWeek

\* .replace(hour=0, minute=0, second=0, microsecond=0)
Midnight(t) == (t \div TicksPerDay) * TicksPerDay

\* days_since_sunday = (ref.weekday() + 1) % 7
DaysSinceSundayMutMonday(wd) == wd

DaysSinceSunday(wd) == (wd + 1) % DaysPerWeek

\* _start_of_week(ref, tz) for tz = UTC
start_of_week(t) == Midnight(t - DaysSinceSunday(weekday(t)) * TicksPerDay)

NotComputed == [called |-> FALSE, raised |-> FALSE, start |-> 0, end |-> 0]
AttributeError == [called |-> TRUE, raised |-> TRUE, start |-> 0, end |-> 0]

\* get_last_week_range(reference) when the clock reads `now`: None stands
\* for now; anything that is no datetime has no astimezone (AttributeError).
get_last_week_range(ref, now) ==
    LET r == IF ref = DtNone THEN Dt(now) ELSE ref
        this_week_sunday == start_of_week(r.t)
        last_week_sunday == this_week_sunday - DaysPerWeek * TicksPerDay
    IN IF r.k # "datetime" THEN AttributeError
       ELSE [called |-> TRUE, raised |-> FALSE,
             start |-> last_week_sunday, end |-> this_week_sunday - 1]

DatIdle == reference = DtNone /\ week = NotComputed

DatInit ==
    /\ reference \in {DtNone} \cup {Dt(t) : t \in Instants}
                     \cup {IntArg(n) : n \in 1..MaxWeeks}
    /\ week = NotComputed

GetLastWeekRange ==
    /\ ~week.called
    /\ \E now \in Instants : week' = get_last_week_range(reference, now)
    /\ UNCHANGED reference

DatNext == GetLastWeekRange /\ UNCHANGED NotDat

----------------------------------------------------------------------------
(***************************************************************************)
(* main.py: the command line.  An I/O event is [ev, ent]; ev is one of     *)
(* "cred_query" (config.get_credentials asks the credential store),        *)
(* "token", "search", "file_write", "read_snapshot", "insert", "print".    *)
(***************************************************************************)
\* ENTITIES in list order
EntityOrder == <<"loads", "trips", "invoices", "drivers", "trucks", "trailers", "customers">>

\* The order export_endpoints works through the entities it is given
ExportOrder ==
    <<"trips", "loads", "invoices", "drivers", "trucks", "trailers", "customers", "carriers">>

\* [e for e in order if e in ent_set]
RECURSIVE Filter(_, _)
Filter(order, ent_set) ==
    IF order = <<>> THEN <<>>
    ELSE (IF Head(order) \in ent_set THEN <<Head(order)>> ELSE <<>>)
         \o Filter(Tail(order), ent_set)

\* normalise(entity_args)
normalise(ent_set) ==
    IF ent_set = {} \/ ent_set = {"all"} THEN EntityOrder ELSE Filter(EntityOrder, ent_set)

\* The entity arguments tried: none, "all", and one or two entity names
EntityArgs ==
    {{}, {"all"}} \cup {{a, b} : a \in ENTITIES, b \in ENTITIES}

Event(ev, e) == [ev |-> ev, ent |-> e]

NetworkEvents == {"cred_query", "token", "search"}
StorageEvents == {"file_write", "read_snapshot", "insert"}

\* export_endpoints(entities, ...): the token request, then for every entity
\* given, in its own order, the search and the snapshot write
RECURSIVE ExportEvents(_)
ExportEvents(es) ==
    IF es = <<>> THEN <<>>
    ELSE <<Event("search", Head(es)), Event("file_write", Head(es))>> \o ExportEvents(Tail(es))

export_endpoints(ents) ==
    <<Event("token", "")>> \o ExportEvents(Filter(ExportOrder, {ents[i] : i \in DOMAIN ents}))

NotPassed == [called |-> FALSE, start |-> 0, end |-> 0]
NoArgs == [cmd |-> "none", ents |-> <<>>, weeks_ago |-> 0, dry_run |-> FALSE, known |-> FALSE]
NotStarted == [pc |-> "idle", fatal |-> "none", pos |-> 0]

CliIdle ==
    /\ args = NoArgs
    /\ today = 0
    /\ cli = NotStarted
    /\ io = <<>>
    /\ passed = NotPassed

\* main(): the arguments are parsed and the entities normalised; "known"
\* says whether the credential store has an entry for --scac.
CliInit ==
    /\ args \in [cmd : {"export", "insert", "export-insert"},
                 ents : {normalise(a) : a \in EntityArgs},
                 weeks_ago : 1..MaxWeeks,
                 dry_run : BOOLEAN,
                 known : BOOLEAN]
    /\ today \in {t \in Instants : t \div TicksPerDay > MaxDay - DaysPerWeek /\ t % TicksPerDay = 1}
    /\ cli = [pc |-> IF args.cmd = "insert" THEN "insert" ELSE "export",
              fatal |-> "none", pos |-> 0]
    /\ io = <<>>
    /\ passed = NotPassed

\* main() has no try/except around run_export: an exception raised there
\* leaves main, and the statements after the call (run_insert in
\* export-insert) are never reached.
UncaughtMutSwallowed(cmd) == IF cmd = "export-insert" THEN "insert" ELSE "fatal"

Uncaught(cmd) == "fatal"

\* run_export(scac, entities, weeks_ago, dry_run)
RunExport ==
    /\ cli.pc = "export"
    /\ LET wk == get_last_week_range(IntArg(args.weeks_ago), today)
           after == IF args.cmd = "export" THEN "done" ELSE "insert"
       IN IF wk.raised
          THEN /\ cli' = [cli EXCEPT !.pc = Uncaught(args.cmd), !.fatal = "AttributeError"]
               /\ UNCHANGED <<io, passed>>
          ELSE IF ~args.known
          THEN /\ cli' = [cli EXCEPT !.pc = Uncaught(args.cmd), !.fatal = "KeyError"]
               /\ io' = io \o <<Event("cred_query", "")>>
               /\ UNCHANGED passed
          ELSE IF args.dry_run
          THEN /\ cli' = [cli EXCEPT !.pc = after]
               /\ io' = io \o <<Event("cred_query", ""), Event("print", "export")>>
               /\ UNCHANGED passed
          ELSE /\ cli' = [cli EXCEPT !.pc = after]
               /\ io' = io \o <<Event("cred_query", "")>> \o export_endpoints(args.ents)
               /\ passed' = [called |-> TRUE, start |-> wk.start, end |-> wk.end]
    /\ UNCHANGED <<args, today>>

\* run_insert(scac, entities, dry_run): entry
CliInsertEnter ==
    /\ cli.pc = "insert"
    /\ IF args.dry_run
       THEN /\ cli' = [cli EXCEPT !.pc = "done"]
            /\ io' = io \o <<Event("print", "insert")>>
       ELSE /\ cli' = [cli EXCEPT !.pc = "loop", !.pos = 1]
            /\ io' = io
    /\ UNCHANGED <<args, today, passed>>

\* run_insert: one iteration of `for ent in entities`: the module
\* inserts.<ent>_insert is imported (sys.exit when there is none) and its
\* main() reads the snapshots and writes the tables.
CliInsertEntity ==
    /\ cli.pc = "loop"
    /\ IF cli.pos > Len(args.ents)
       THEN /\ cli' = [cli EXCEPT !.pc = "done"]
            /\ io' = io
       ELSE IF args.ents[cli.pos] \notin InsertModules
       THEN /\ cli' = [cli EXCEPT !.pc = "fatal", !.fatal = "SystemExit"]
            /\ io' = io
       ELSE /\ cli' = [cli EXCEPT !.pos = @ + 1]
            /\ io' = io \o <<Event("read_snapshot", args.ents[cli.pos]),
                             Event("insert", args.ents[cli.pos])>>
    /\ UNCHANGED <<args, today, passed>>

CliNext ==
    \/ RunExport /\ UNCHANGED NotCli
    \/ CliInsertEnter /\ UNCHANGED NotCli
    \/ CliInsertEntity /\ UNCHANGED NotCli

----------------------------------------------------------------------------
(***************************************************************************)
(* alvys_export: one export run, step by step.  A job is one entity-fetch: *)
(* <<entity>> or <<entity, window>>, named as its snapshot file.           *)
(***************************************************************************)
\* The windows the run pulls: export_endpoints gets one date_range,
\* alvys_export.main walks WEEK_RANGES.
RunWindows(script) == IF script THEN <<"W1", "W2">> ELSE <<"W2">>

\* The entity-fetches of a run over the entities ents, in processing order
RECURSIVE JobsOf(_, _)
JobsOf(order, script) ==
    IF order = <<>> THEN <<>>
    ELSE (IF Head(order) \in PartitionedEntities
          THEN [i \in DOMAIN RunWindows(script) |-> FileName(Head(order), RunWindows(script)[i])]
          ELSE <<FileName(Head(order), "W2")>>)
         \o JobsOf(Tail(order), script)

\* The entity lists tried
ExportArgs == {{"trips"}, {"drivers"}, {"trips", "drivers", "carriers"}}

\* What an earlier run left in a file
OldSnapshot == Dump(Tagged(Items(1), 0))

\* The page of the search over n records
SearchPage(n, pg) == SubSeq(Items(n), pg * PageSize + 1, Min((pg + 1) * PageSize, n))

XEvent(ev, job, pg) == [ev |-> ev, job |-> job, page |-> pg]

\* What the run does after a request came back with an error status:
\* raise_for_status raises and nothing catches it.
NextAfterErrorMutRetry(at) == at

NextAfterError(at) == "failed"

XpIdle ==
    [pc |-> "idle", jobs |-> <<>>, pos |-> 0, token |-> FALSE, page |-> 0, items |-> <<>>,
     file_id |-> 0, fetched_at |-> 0, before |-> [f \in AllFiles |-> NoFile]]

ExpIdle == avail = <<>> /\ xp = XpIdle /\ xlog = <<>>

\* The run starts: the data directory is empty or holds the snapshots of
\* an earlier run; the API holds some records for every job.
ExpInit ==
    /\ entity = "none"
    /\ clock = 0
    /\ \E old \in {NoFile, OldSnapshot} : files = [f \in AllFiles |-> old]
    /\ \E a \in ExportArgs, script \in BOOLEAN :
          xp = [XpIdle EXCEPT !.pc = "start",
                              !.jobs = JobsOf(Filter(ExportOrder, a), script),
                              !.pos = 1,
                              !.before = files]
    /\ avail \in [{xp.jobs[i] : i \in DOMAIN xp.jobs} -> {0, PageSize, MaxItems}]
    /\ xlog = <<>>

\* requests.post(auth_url, ...); token_resp.raise_for_status()
TokenRequest ==
    /\ xp.pc = "start"
    /\ xlog' = xlog \o <<XEvent("token", <<>>, 0)>>
    /\ \E ok \in BOOLEAN :
          IF Raises(ok)
          THEN xp' = [xp EXCEPT !.pc = NextAfterError("start")]
          ELSE xp' = [xp EXCEPT !.pc = "next", !.token = TRUE]
    /\ UNCHANGED <<avail, storeVars>>

\* The next entity block is entered (or the run is over).
BeginEntity ==
    /\ xp.pc = "next"
    /\ IF xp.pos > Len(xp.jobs)
       THEN xp' = [xp EXCEPT !.pc = "done"]
       ELSE xp' = [xp EXCEPT !.pc = "fetching", !.page = 0, !.items = <<>>]
    /\ UNCHANGED <<avail, xlog, storeVars>>

\* fetch_paginated_data, one pass of the loop: the request, raise_for_status,
\* the batch, the break conditions.
FetchEntityPage ==
    /\ xp.pc = "fetching"
    /\ xlog' = xlog \o <<XEvent("search", xp.jobs[xp.pos], xp.page)>>
    /\ \E ok \in BOOLEAN :
          LET batch == IF ok THEN SearchPage(avail[xp.jobs[xp.pos]], xp.page) ELSE <<>>
              its == xp.items \o batch
          IN IF Raises(ok)
             THEN xp' = [xp EXCEPT !.pc = NextAfterError("fetching")]
             ELSE IF batch = <<>> \/ ShouldBreak(batch, its, NoCap)
             THEN xp' = [xp EXCEPT !.pc = "fetched", !.items = its, !.fetched_at = clock]
             ELSE xp' = [xp EXCEPT !.items = its, !.page = @ + 1]
    /\ UNCHANGED <<avail, storeVars>>

\* file_id = get_file_id(); for rec in data: rec["FILE_ID"] = file_id
TagRecords ==
    /\ xp.pc = "fetched"
    /\ LET file_id == get_file_id(clock)
       IN xp' = [xp EXCEPT !.pc = "tagged", !.file_id = file_id,
                           !.items = Tagged(xp.items, file_id)]
    /\ xlog' = xlog \o <<XEvent("file_id", xp.jobs[xp.pos], 0)>>
    /\ UNCHANGED <<avail, storeVars>>

\* save_json(data, fname, output_dir)
SaveSnapshot ==
    /\ xp.pc = "tagged"
    /\ LET f == xp.jobs[xp.pos]
       IN files' = [files EXCEPT ![f] = save_json(files[f], xp.items)]
    /\ xlog' = xlog \o <<XEvent("write", xp.jobs[xp.pos], 0)>>
    /\ xp' = [xp EXCEPT !.pc = "next", !.pos = @ + 1, !.items = <<>>]
    /\ UNCHANGED <<avail, entity, clock>>

ExpNext ==
    \/ TokenRequest /\ UNCHANGED NotExp
    \/ BeginEntity /\ UNCHANGED NotExp
    \/ FetchEntityPage /\ UNCHANGED NotExp
    \/ TagRecords /\ UNCHANGED NotExp
    \/ SaveSnapshot /\ UNCHANGED NotExp
    \/ Tick /\ UNCHANGED <<entity, files, expVars>> /\ UNCHANGED NotExp


----------------------------------------------------------------------------
(***************************************************************************)
(* FILE_ID from snapshot to row: what the insert modules derive from one   *)
(* snapshot file of any content json.load accepts.                         *)
(***************************************************************************)
\* The contents tried: up to MaxItems records, numbered by position, each
\* with a FILE_ID of its own.
SnapContents ==
    UNION {[1..n -> 0..MaxFileId] : n \in 0..MaxItems}

Content(ids) == [i \in DOMAIN ids |-> [k |-> i, FILE_ID |-> ids[i]]]

NotDerived == [called |-> FALSE, module |-> "none", rows |-> <<>>, stops |-> <<>>]

FidIdle == snap = <<>> /\ derived = NotDerived

FidInit ==
    /\ snap \in {Content(ids) : ids \in SnapContents}
    /\ derived = NotDerived

\* alvys_insert / active_entities_insert: the records are sanitized and
\* stamped by batch_insert.
DeriveScript ==
    /\ ~derived.called
    /\ \E ts \in 0..MaxClock :
          derived' = [called |-> TRUE, module |-> "script",
                      rows |-> Stamp(Clean(snap), ts), stops |-> <<>>]
    /\ UNCHANGED snap

\* trips_insert.build_dfs on the file: an empty file is skipped; file_id
\* is read from data[0] and handed to flatten_trip and flatten_stops.
DeriveTrips ==
    /\ ~derived.called
    /\ \E ts \in 0..MaxClock :
          derived' = [called |-> TRUE, module |-> "trips",
                      rows |-> TripRowsOf(snap, ts),
                      stops |-> IF snap = <<>> THEN <<>> ELSE StopRowsOf(snap, snap[1], ts)]
    /\ UNCHANGED snap

FidNext ==
    \/ DeriveScript /\ UNCHANGED NotFid
    \/ DeriveTrips /\ UNCHANGED NotFid

----------------------------------------------------------------------------
(***************************************************************************)
(* config.get_credentials behind functools.lru_cache.  A tenant identifier *)
(* is a string of characters; the credential store has rows for the SCACs  *)
(* "A" and "B" and none for "C".                                           *)
(***************************************************************************)
StoreRows == {<<"A">>, <<"B">>}

\* The spellings a caller passes
RawKeys ==
    {<<"A">>, <<"a">>, <<" ", "A">>, <<"B">>, <<"b">>, <<"b", " ">>, <<"C">>, <<"c">>}

\* str.upper() on the characters in use
UpperChar(c) ==
    CASE c = "a" -> "A" [] c = "b" -> "B" [] c = "c" -> "C" [] OTHER -> c

Upper(str) == [i \in DOMAIN str |-> UpperChar(str[i])]

\* scac = scac.upper().strip()
NormScac(scac) == Strip(Upper(scac))

\* dict(zip([c.lower() for c in _COLS], row))
Creds(scac) == [found |-> TRUE, tenant_id |-> scac]
KeyError == [found |-> FALSE, tenant_id |-> <<>>]

\* lru_cache: is the call answered from the cache?  The key is the
\* argument as passed.
CacheHitMutNever(key, keys) == FALSE

CacheHit(key, keys) == \E i \in DOMAIN keys : keys[i] = key

Without(keys, key) == SelectSeq(keys, LAMBDA x : x # key)

CredIdle == cache = <<>> /\ calls = <<>> /\ evicted = {}

\* The process starts with an empty cache.
CredInit == cache = <<>> /\ calls = <<>> /\ evicted = {}

\* get_credentials(scac): a hit returns the cached dict and makes the key
\* the most recent one; a miss runs the body (one query); a result is
\* cached, evicting the least recently used key when the cache is full; a
\* KeyError is not cached.
GetCredentials(scac) ==
    /\ Len(calls) < MaxCalls
    /\ IF CacheHit(scac, cache)
       THEN /\ cache' = Without(cache, scac) \o <<scac>>
            /\ calls' = Append(calls, [raw |-> scac, hit |-> TRUE, res |-> Creds(NormScac(scac))])
            /\ UNCHANGED evicted
       ELSE IF NormScac(scac) \notin StoreRows
       THEN /\ calls' = Append(calls, [raw |-> scac, hit |-> FALSE, res |-> KeyError])
            /\ UNCHANGED <<cache, evicted>>
       ELSE /\ calls' = Append(calls, [raw |-> scac, hit |-> FALSE, res |-> Creds(NormScac(scac))])
            /\ IF Len(cache) >= maxsize
               THEN cache' = Tail(cache) \o <<scac>> /\ evicted' = evicted \cup {Head(cache)}
               ELSE cache' = cache \o <<scac>> /\ UNCHANGED evicted

CredNext == \E scac \in RawKeys : GetCredentials(scac) /\ UNCHANGED NotCred

----------------------------------------------------------------------------
(***************************************************************************)
(* The specifications                                                      *)
(***************************************************************************)
InitPaginate == PagInit /\ SanIdle /\ StoreIdle /\ SnapIdle /\ WriteIdle /\ DatIdle /\ CliIdle /\ ExpIdle /\ FidIdle /\ CredIdle

SpecPaginate == InitPaginate /\ [][PagNext]_vars

InitSanitize == SanInit /\ PagIdle /\ StoreIdle /\ SnapIdle /\ WriteIdle /\ DatIdle /\ CliIdle /\ ExpIdle /\ FidIdle /\ CredIdle

SpecSanitize == InitSanitize /\ [][SanNext]_vars

InitSnapshot == SnapInit /\ PagIdle /\ SanIdle /\ WriteIdle /\ DatIdle /\ CliIdle /\ ExpIdle /\ FidIdle /\ CredIdle

SpecSnapshot == InitSnapshot /\ [][SnapNext]_vars

InitWrite == WriteInit /\ PagIdle /\ SanIdle /\ SnapIdle /\ DatIdle /\ CliIdle /\ ExpIdle /\ FidIdle /\ CredIdle

SpecWrite == InitWrite /\ [][WriteNext]_vars

InitDates == DatInit /\ PagIdle /\ SanIdle /\ StoreIdle /\ SnapIdle /\ WriteIdle /\ CliIdle /\ ExpIdle /\ FidIdle /\ CredIdle

SpecDates == InitDates /\ [][DatNext]_vars

InitCli == CliInit /\ PagIdle /\ SanIdle /\ StoreIdle /\ SnapIdle /\ WriteIdle /\ DatIdle /\ ExpIdle /\ FidIdle /\ CredIdle

SpecCli == InitCli /\ [][CliNext]_vars

InitWriteAll == WriteAllInit /\ PagIdle /\ SanIdle /\ SnapIdle /\ DatIdle /\ CliIdle /\ ExpIdle /\ FidIdle /\ CredIdle

SpecWriteAll == InitWriteAll /\ [][WriteAllNext]_vars

InitExport == ExpInit /\ PagIdle /\ SanIdle /\ SnapIdle /\ WriteIdle /\ DatIdle /\ CliIdle /\ FidIdle /\ CredIdle

SpecExport == InitExport /\ [][ExpNext]_vars

InitFileId == FidInit /\ SanIdle /\ StoreIdle /\ SnapIdle /\ WriteIdle /\ DatIdle /\ CliIdle /\ ExpIdle /\ PagIdle /\ CredIdle

SpecFileId == InitFileId /\ [][FidNext]_vars

InitCreds == CredInit /\ SanIdle /\ StoreIdle /\ SnapIdle /\ WriteIdle /\ DatIdle /\ CliIdle /\ ExpIdle /\ FidIdle /\ PagIdle

SpecCreds == InitCreds /\ [][CredNext]_vars

----------------------------------------------------------------------------
(***************************************************************************)
(* Claims about the paginator (checked under SpecPaginate)                 *)
(***************************************************************************)
CeilDiv(a, b) == (a + b - 1) \div b

\* C1: for every supplied cap and every server behaviour, the returned list
\* has at most cap items and is a prefix of the concatenation of the
\* server's pages in page order.  (Fails for the supplied cap 0, which the
\* code takes for "no cap".)
C1_CapAndPrefix ==
    pc = "done" =>
        /\ IsPrefix(result, served)
        /\ (max_items # NoCap => Len(result) <= max_items)

\* C2 as stated: with no cap, against an honest server holding N items,
\* exactly ceil(N / pageSize) requests are issued.
C2_CeilRequests ==
    (pc = "done" /\ srvMode = "honest" /\ max_items = NoCap /\ errPage = -1)
        => Len(requests) = CeilDiv(srvN, PageSize)

\* C2 amended: with no cap, against an honest server holding N items that
\* answers every request, the fetch never issues more than
\* floor(N / pageSize) + 1 requests and has returned exactly when it has
\* issued that many (one more than ceil(N / pageSize) when N is 0 or an
\* exact multiple of pageSize: the request that reads the empty page).
C2_FloorPlusOneRequests ==
    (srvMode = "honest" /\ max_items = NoCap /\ errPage = -1) =>
        /\ Len(requests) <= (srvN \div PageSize) + 1
        /\ (pc = "done" <=> Len(requests) = (srvN \div PageSize) + 1)
        /\ (pc = "done" => result = Range(1, srvN))

C2_Witness ==
    /\ pc = "done" /\ srvMode = "honest" /\ max_items = NoCap
    /\ srvN > 0 /\ srvN % PageSize = 0
    /\ Len(requests) = (srvN \div PageSize) + 1

\* C3: when the request for page k is answered non-2xx, the pagination ends
\* with a fatal error, nothing is returned (not even the items of pages
\* 0..k-1), the failed request is not reissued and no later page is
\* requested: the server saw exactly the requests 0, 1, ..., k.
C3_ErrorAborts ==
    errPage # -1 =>
        /\ pc = "failed"
        /\ result = <<>>
        /\ requests = Range(0, errPage)

C3_Witness ==
    /\ errPage >= 1 /\ pc = "failed" /\ Len(items) >= PageSize
    /\ requests = Range(0, errPage)

----------------------------------------------------------------------------
(***************************************************************************)
(* Claims about the sanitizers (checked under SpecSanitize)                *)
(***************************************************************************)
\* The source field(s) each column is read from
DriverSrc ==
    [ID |-> {<<"Id">>}, EMPLOYEE_ID |-> {<<"EmployeeId">>}, DRIVER_TYPE |-> {<<"Type">>},
     SUBSIDIARY_ID |-> {<<"SubsidiaryId">>}, ZIP_CODE |-> {<<"Address", "ZipCode">>},
     FLEET_ID |-> {<<"Fleet", "Id">>}, FLEET_NAME |-> {<<"Fleet", "Name">>},
     CREATED_DTTM |-> {<<"CreatedAt">>}, IS_ACTIVE |-> {<<"IsActive">>},
     HIRED_DTTM |-> {<<"HiredAt">>}, FILE_ID |-> {<<"FILE_ID">>}]

TruckSrc ==
    [ID |-> {<<"Id">>}, TRUCK_NUM |-> {<<"TruckNum">>}, VIN_NUMBER |-> {<<"VinNumber">>},
     YEAR |-> {<<"Year">>}, MAKE |-> {<<"Make">>}, MODEL |-> {<<"Model">>},
     LICENSE_STATE |-> {<<"LicenseState">>}, TRUCK_TYPE |-> {<<"TruckType">>},
     SUBSIDIARY_ID |-> {<<"SubsidiaryId">>}, FLEET_ID |-> {<<"Fleet", "Id">>},
     FLEET_NAME |-> {<<"Fleet", "Name">>}, CREATED_DTTM |-> {<<"CreatedAt">>},
     FILE_ID |-> {<<"FILE_ID">>}]

TrailerSrc ==
    [ID |-> {<<"Id">>}, TRAILER_NUM |-> {<<"TrailerNum">>},
     TRAILER_TYPE |-> {<<"TrailerType">>}, TRAILER_STATUS |-> {<<"Status">>},
     CREATED_DTTM |-> {<<"CreatedAt">>}, FILE_ID |-> {<<"FILE_ID">>}]

CustomerSrc ==
    [ID |-> {<<"Id">>}, CUSTOMER_NAME |-> {<<"Name">>},
     COMPANY_NUMBER |-> {<<"CompanyNumber">>}, CUSTOMER_TYPE |-> {<<"Type">>},
     CUSTOMER_STATUS |-> {<<"Status">>},
     BILLING_ADDRESS |-> {<<"BillingAddress", BillingKeys[i]>> : i \in 1..Len(BillingKeys)},
     CREATED_DTTM |-> {<<"DateCreated">>},
     INVOICING_NAME |-> {<<"InvoicingInformation", "InvoicingName">>},
     INVOICING_ALIAS |-> {<<"InvoicingInformation", "InvoicingNameAlias">>},
     FILE_ID |-> {<<"FILE_ID">>}]

CustomerSrcAE ==
    [c \in (DOMAIN CustomerSrc) \cup {"CITY", "STATE_PROVINCE", "POSTAL_CD"} |->
        CASE c = "BILLING_ADDRESS" -> {<<"BillingAddress", "Street">>}
          [] c = "CITY" -> {<<"BillingAddress", "City">>}
          [] c = "STATE_PROVINCE" -> {<<"BillingAddress", "State">>}
          [] c = "POSTAL_CD" -> {<<"BillingAddress", "ZipCode">>}
          [] OTHER -> CustomerSrc[c]]

CarrierSrc ==
    [ID |-> {<<"Id">>}, CARRIER_NAME |-> {<<"Name">>},
     EXTERNAL_NAME |-> {<<"ExternalName">>}, CITY |-> {<<"Address", "City">>},
     ZIP |-> {<<"Address", "ZipCode">>}, MC_NUM |-> {<<"McNum">>},
     US_DOT_NUM |-> {<<"UsDotNum">>}, CARRIER_TYPE |-> {<<"Type">>},
     CARRIER_STATUS |-> {<<"Status">>}, CARRIER_SOURCE |-> {<<"Source">>},
     UPDATED_DTTM |-> {<<"UpdatedAt">>}, CREATED_DTTM |-> {<<"CreatedAt">>},
     FILE_ID |-> {<<"FILE_ID">>}]
    @@ ("STATE" :> {<<"Address", "State">>})

\* INSERTED_DTTM is read from no field of the record.
TripSrc ==
    [ID |-> {<<"Id">>}, TRIP_NUMBER |-> {<<"TripNumber">>}, TRIP_STATUS |-> {<<"Status">>},
     LOAD_NUMBER |-> {<<"LoadNumber">>}, TENDER_AS |-> {<<"TenderAs">>},
     TOTAL_MILEAGE |-> {<<"TotalMileage", "Distance", "Value">>},
     MILEAGE_SOURCE |-> {<<"TotalMileage", "Source">>},
     MILEAGE_PROFILE_NAME |-> {<<"TotalMileage", "ProfileName">>},
     EMPTY_MILEAGE |-> {<<"EmptyMileage", "Distance", "Value">>},
     LOADED_MILEAGE |-> {<<"LoadedMileage", "Distance", "Value">>},
     PICKUP_DTTM |-> {<<"PickupDate">>}, DELIVERY_DTTM |-> {<<"DeliveryDate">>},
     PICKED_UP_DTTM |-> {<<"PickedUpAt">>}, DELIVERED_DTTM |-> {<<"DeliveredAt">>},
     CARRIER_ASSIGNED_DTTM |-> {<<"CarrierAssignedAt">>},
     RELEASED_DTTM |-> {<<"ReleasedAt">>}, TRIP_VALUE |-> {<<"TripValue", "Amount">>},
     TRUCK_ID |-> {<<"Truck", "Id">>}, TRUCK_FLEET_ID |-> {<<"Truck", "Fleet", "Id">>},
     TRUCK_FLEET_NAME |-> {<<"Truck", "Fleet", "Name">>},
     TRAILER_ID |-> {<<"Trailer", "Id">>},
     TRAILER_TYPE |-> {<<"Trailer", "EquipmentType">>},
     DRIVER1_ID |-> {<<"Driver1", "Id">>},
     DRIVER1_TYPE |-> {<<"Driver1", "ContractorType">>},
     DRIVER1_FLEET_ID |-> {<<"Driver1", "Fleet", "Id">>},
     DRIVER2_ID |-> {<<"Driver2", "Id">>},
     DRIVER2_TYPE |-> {<<"Driver2", "ContractorType">>},
     DRIVER2_FLEET_ID |-> {<<"Driver2", "Fleet", "Id">>},
     OWNER_OPERATOR_ID |-> {<<"OwnerOperator", "Id">>},
     RELEASED_BY |-> {<<"ReleasedBy">>}, DISPATCHED_BY |-> {<<"DispatchedBy">>},
     DISPATCHER_ID |-> {<<"DispatcherId">>},
     IS_CARRIER_PAY_ON_HOLD |-> {<<"CarrierPayOnHold">>},
     CARRIER_ID |-> {<<"Carrier", "Id">>},
     CARRIER_INVOICE |-> {<<"Carrier", "CarrierInvoiceNumber">>},
     CARRIER_RATE |-> {<<"Carrier", "Rate", "Amount">>},
     CARRIER_LINEHAUL |-> {<<"Carrier", "Linehaul", "Amount">>},
     CARRIER_FUEL |-> {<<"Carrier", "Fuel", "Amount">>},
     CARRIER_ACCESSORIALS |-> {<<"Carrier", "Accessorials", "Amount">>},
     CARRIER_TOTAL_PAYABLE |-> {<<"Carrier", "TotalPayable", "Amount">>},
     UPDATED_DTTM |-> {<<"UpdatedAt">>}, FILE_ID |-> {<<"FILE_ID">>},
     INSERTED_DTTM |-> {}]

\* The fields of the stop itself; TRIP_ID, TRIP_NUMBER and FILE_ID come from
\* the parent trip and STOP_SEQUENCE from the position.
StopSrc ==
    [ID |-> {<<"Id">>}, TRIP_ID |-> {}, TRIP_NUMBER |-> {}, STOP_SEQUENCE |-> {},
     IS_APPOINTMENT_REQUESTED |-> {<<"AppointmentRequested">>},
     IS_APPOINTMENT_CONFIRMED |-> {<<"AppointmentConfirmed">>},
     EARLIEST_APPOINTMENT_DTTM |-> {<<"AppointmentDate">>, <<"StopWindow", "Begin">>},
     LATEST_APPOINTMENT_DTTM |-> {<<"StopWindow", "End">>},
     STREET_ADDRESS |-> {<<"Address", "Street">>}, CITY |-> {<<"Address", "City">>},
     STATE_PROVINCE |-> {<<"Address", "State">>}, POSTAL_CD |-> {<<"Address", "ZipCode">>},
     LATITUDE |-> {<<"Coordinates", "Latitude">>},
     LONGITUDE |-> {<<"Coordinates", "Longitude">>},
     STOP_STATUS |-> {<<"Status">>}, STOP_TYPE |-> {<<"StopType">>},
     STOP_SCHEDULE_TYPE |-> {<<"ScheduleType">>}, LOADING_TYPE |-> {<<"LoadingType">>},
     ARRIVED_DTTM |-> {<<"ArrivedAt">>}, DEPARTED_DTTM |-> {<<"DepartedAt">>},
     FILE_ID |-> {}, INSERTED_DTTM |-> {}]

SrcOf(e) ==
    CASE e = "driver" -> DriverSrc
      [] e = "truck" -> TruckSrc
      [] e = "ae_truck" -> TruckSrc @@ ("TRUCK_STATUS" :> {<<"Status">>})
      [] e = "trailer" -> TrailerSrc
      [] e = "customer" -> CustomerSrc
      [] e = "ae_customer" -> CustomerSrcAE
      [] e = "carrier" -> CarrierSrc
      [] OTHER -> TripSrc

\* Every key of the record is missing or holds a value of its documented type.
OnlyMissing(f, schema) ==
    \A p \in DOMAIN f : f[p] = ABSENT \/ f[p] = WellFormed(schema[p])

\* The record the sanitizer was applied to lacks keys but holds nothing malformed.
RecOnlyMissing ==
    /\ OnlyMissing(rec.f, SchemaOf(ent))
    /\ \A i \in DOMAIN rec.stops :
          rec.stops[i].v = VDict /\ OnlyMissing(rec.stops[i].f, StopSchema)

\* All the source fields of a column are missing.
Missing(f, src, c) == src[c] # {} /\ \A p \in src[c] : f[p] = ABSENT

\* The stop list flatten_stops walks, when the key holds a list or is missing
SourceStops == IF rec.f[<<"Stops">>] = ABSENT THEN <<>> ELSE rec.stops

\* C4 as stated: a record from which keys are missing gives a row with the
\* fixed column set of its entity, null in every column whose source field
\* is missing, and no error.
C4_MissingGivesNull ==
    (out.called /\ RecOnlyMissing) =>
        /\ ~out.raised
        /\ Len(out.rows) = 1
        /\ DOMAIN out.rows[1] = DOMAIN SrcOf(ent)
        /\ \A c \in DOMAIN SrcOf(ent) :
              Missing(rec.f, SrcOf(ent), c) => out.rows[1][c] = None
        /\ ent = "trip" =>
              /\ Len(out.stops) = Len(SourceStops)
              /\ \A i \in DOMAIN out.stops :
                    /\ DOMAIN out.stops[i] = DOMAIN StopSrc
                    /\ \A c \in DOMAIN StopSrc :
                          Missing(rec.stops[i].f, StopSrc, c) => out.stops[i][c] = None

\* The columns that get a default instead of null
FlagCols ==
    {"IS_ACTIVE", "IS_CARRIER_PAY_ON_HOLD", "IS_APPOINTMENT_REQUESTED",
     "IS_APPOINTMENT_CONFIRMED"}

\* What a column holds when its source field is missing
WhenMissing(e, c, row) ==
    CASE c \in FlagCols -> VInt(<<"0">>)
      [] e = "customer" /\ c = "BILLING_ADDRESS" ->
            VStr(<<",", " ", ",", " ", ",", " ">>)
      [] e = "stop" /\ c = "ID" ->
            VStr(Take(Str(row["TRIP_ID"]) \o <<"_">> \o row["STOP_SEQUENCE"].s, S100))
      [] OTHER -> None

\* C4 amended: a record from which keys are missing gives a row with the
\* fixed column set of its entity and no error; a column whose source field
\* is missing is null, except that a 0/1 flag column is 0, the concatenated
\* BILLING_ADDRESS of alvys_insert.sanitize_customer is ", , , " and a stop's
\* ID is the synthetic <TRIP_ID>_<STOP_SEQUENCE> cut to the column width.
C4_MissingGivesNullOrDefault ==
    (out.called /\ RecOnlyMissing) =>
        /\ ~out.raised
        /\ Len(out.rows) = 1
        /\ DOMAIN out.rows[1] = DOMAIN SrcOf(ent)
        /\ \A c \in DOMAIN SrcOf(ent) :
              Missing(rec.f, SrcOf(ent), c) =>
                  out.rows[1][c] = WhenMissing(ent, c, out.rows[1])
        /\ ent = "trip" =>
              /\ Len(out.stops) = Len(SourceStops)
              /\ \A i \in DOMAIN out.stops :
                    /\ DOMAIN out.stops[i] = DOMAIN StopSrc
                    /\ \A c \in DOMAIN StopSrc :
                          Missing(rec.stops[i].f, StopSrc, c) =>
                              out.stops[i][c] = WhenMissing("stop", c, out.stops[i])

\* A row was built from a record that lacks a nested object and a flag.
C4_Witness ==
    /\ out.called /\ RecOnlyMissing /\ ~out.raised
    /\ \/ /\ ent = "driver"
          /\ rec.f[<<"Address">>] = ABSENT /\ rec.f[<<"IsActive">>] = ABSENT
          /\ out.rows[1]["ZIP_CODE"] = None
       \/ /\ ent = "trip"
          /\ rec.f[<<"Carrier">>] = ABSENT /\ rec.f[<<"CarrierPayOnHold">>] = ABSENT
          /\ out.rows[1]["CARRIER_RATE"] = None

\* A source field of column c is malformed in one of the named shapes: null
\* or a non-object where a nested object is expected, a null or non-boolean
\* flag, a non-date string, a non-numeric value.
Malformed(f, schema, src, c) ==
    \E p \in src[c] :
        \/ \E i \in 1..(Len(p) - 1) : f[SubSeq(p, 1, i)] \notin {ABSENT, VDict}
        \/ schema[p] = "bool" /\ f[p] \notin {ABSENT, VTrue, VFalse}
        \/ schema[p] = "date" /\ f[p].k = "str" /\ ~IsIso(ReplaceZ(f[p].s))
        \/ schema[p] = "num" /\ f[p].k \notin {"ABSENT", "int"}
                             /\ ~(f[p].k = "str" /\ IsDigits(Strip(f[p].s)))

\* C5 as stated: whatever the shape of the record's fields, the sanitizer
\* returns a row, with null in each column a malformed field affects, and
\* raises nothing (a null stop list gives no stop rows).
C5_MalformedGivesNull ==
    out.called =>
        /\ ~out.raised
        /\ Len(out.rows) = 1
        /\ \A c \in DOMAIN SrcOf(ent) :
              Malformed(rec.f, SchemaOf(ent), SrcOf(ent), c) => out.rows[1][c] = None
        /\ ent = "trip" =>
              /\ rec.f[<<"Stops">>] = None => out.stops = <<>>
              /\ \A i \in DOMAIN out.stops : \A c \in DOMAIN StopSrc :
                    Malformed(rec.stops[i].f, StopSchema, StopSrc, c) =>
                        out.stops[i][c] = None

\* C6 as stated: a trip whose stop list holds n stops gives exactly n stop
\* rows, in source order, with STOP_SEQUENCE 1..n.
C6_OneRowPerStop ==
    (/\ out.called /\ ent = "trip"
     /\ rec.f[<<"Stops">>] \in {ABSENT, VList}
     /\ \A i \in DOMAIN rec.stops : rec.stops[i].v = VDict) =>
        /\ ~out.raised
        /\ Len(out.stops) = Len(SourceStops)
        /\ \A i \in DOMAIN out.stops :
              /\ out.stops[i]["STOP_SEQUENCE"] = VInt(Digits(i))
              /\ out.stops[i]["STOP_STATUS"] = s_(Get(rec.stops[i].f, <<"Status">>), S50)

\* C7 as stated: the ID of the stop row at sequence i is the source stop's
\* Id when the stop provides one, otherwise <tripId>_<i>, and TRIP_ID is
\* the ID of the parent trip row.
C7_StopIdentifier ==
    (out.called /\ ~out.raised /\ ent = "trip") =>
        \A i \in DOMAIN out.stops :
            /\ out.stops[i]["ID"] =
                  IF rec.stops[i].f[<<"Id">>] \notin {ABSENT, None}
                  THEN rec.stops[i].f[<<"Id">>]
                  ELSE VStr(Str(out.rows[1]["ID"]) \o <<"_">> \o Digits(i))
            /\ out.stops[i]["TRIP_ID"] = out.rows[1]["ID"]

\* C7 amended: when the stop's Id is truthy (not missing, null, "", 0 or
\* false) ID is that Id as text, stripped of surrounding blanks and cut to
\* the column width, null when only blanks remain; otherwise ID is the first
\* characters, up to the column width, of <t>_<i> where t is the ID of the
\* trip row, or the text None when that is null.  TRIP_ID is the ID of the
\* parent trip row.
C7_StopIdentifierNormalised ==
    (out.called /\ ~out.raised /\ ent = "trip") =>
        \A i \in DOMAIN out.stops :
            LET id == rec.stops[i].f[<<"Id">>]
                text == Strip(Str(id))
            IN /\ out.stops[i]["ID"] =
                     IF Truthy(id)
                     THEN (IF text = <<>> THEN None ELSE VStr(Take(text, S100)))
                     ELSE VStr(Take(Str(out.rows[1]["ID"]) \o <<"_">> \o Digits(i), S100))
               /\ out.stops[i]["TRIP_ID"] = out.rows[1]["ID"]

\* A trip with two stops was flattened: the first has an Id and keeps it,
\* the second has none and gets the synthetic one.
C7_Witness ==
    /\ out.called /\ ~out.raised /\ ent = "trip"
    /\ Len(out.stops) = 2
    /\ rec.stops[1].f[<<"Id">>] = VStr(<<"a">>) /\ out.stops[1]["ID"] = VStr(<<"a">>)
    /\ rec.stops[2].f[<<"Id">>] = ABSENT
    /\ out.rows[1]["ID"] = VStr(<<"b">>)
    /\ out.stops[2]["ID"] = VStr(<<"b", "_", "2">>)
    /\ out.stops[2]["TRIP_ID"] = VStr(<<"b">>)

----------------------------------------------------------------------------
(***************************************************************************)
(* Claims about the batch writers (checked under SpecWrite)                *)
(***************************************************************************)
\* The snapshot the run's export wrote for the entity holds no record.
FetchedNothing == files[FileName(entity, "W2")] = Dump(<<>>)

\* C8 as stated: a batch write of zero rows issues no insert statement and
\* no commit, leaves the table unchanged and does not fail; and an entity
\* whose fetch returned zero items passes through the insert without a
\* fatal error and without any row inserted.
C8_ZeroRowsNoOp ==
    /\ \A t \in Tables :
          called[t] = "empty" =>
              stmts[t] = 0 /\ commits[t] = 0 /\ tables[t] = <<OldRow>> /\ run.pc # "fatal"
    /\ (FetchedNothing /\ run.pc \in {"done", "fatal"}) =>
          /\ run.pc = "done"
          /\ \A t \in Tables : tables[t] = <<OldRow>> /\ stmts[t] = 0

\* The rows the run has committed to table t
Committed(t) == Tail(tables[t])

\* C9: all rows written by one batch write carry the same INSERTED_DTTM,
\* the instant captured when the write began (RUN_TS for the trips module),
\* whatever time passes between the chunks.
C9_OneTimestampPerWrite ==
    /\ \A i \in DOMAIN sent : sent[i].INSERTED_DTTM = w.ts
    /\ \A t \in Tables : \A i \in DOMAIN Committed(t), j \in DOMAIN Committed(t) :
          Committed(t)[i].INSERTED_DTTM = Committed(t)[j].INSERTED_DTTM
    /\ w.table \in Tables =>
          \A i \in DOMAIN Committed(w.table) : Committed(w.table)[i].INSERTED_DTTM = w.ts

\* batch_insert wrote a batch in more than one chunk while the clock moved.
C9_Witness ==
    /\ run = [pc |-> "done", via |-> "script"]
    /\ w.table \in Tables
    /\ stmts[w.table] >= 2
    /\ Len(Committed(w.table)) > BATCH_SIZE
    /\ clock > w.ts

\* C15: a trips insert started through the CLI for the run's window (W2)
\* writes the rows derived from that window's snapshot and no others: the
\* trips and stops it commits are exactly those of TRIPS_API_<W2>.
C15_OnlyRunWindow ==
    (entity = "trips" /\ run = [pc |-> "done", via |-> "cli"]) =>
        LET d2 == FileData(FileName("trips", "W2"))
        IN /\ Committed("TRIPS_RAW") = TripRowsOf(d2, run_ts)
           /\ Committed("TRIP_STOPS_RAW") =
                 (IF d2 = <<>> THEN <<>> ELSE StopRowsOf(d2, d2[1], run_ts))

\* C16: a batch write is all-or-nothing for its table.  While the write is
\* under way nothing of it is committed; the commit is issued once, after
\* the last chunk, and then the table holds every row of the batch; after
\* a failed chunk the run is over with a fatal error and the table holds
\* none of the batch's rows, those of chunks sent before included.
C16_AllOrNothing ==
    /\ \A t \in Tables : commits[t] <= 1
    /\ w.table \in Tables =>
          /\ run.pc = "writing" => (commits[w.table] = 0 /\ Committed(w.table) = <<>>)
          /\ called[w.table] = "failed" =>
                (run.pc = "fatal" /\ commits[w.table] = 0 /\ Committed(w.table) = <<>>)
          /\ commits[w.table] = 1 =>
                (Committed(w.table) = w.rows /\ called[w.table] = "rows" /\ sent = <<>>)

\* A chunk failed after an earlier chunk of the same write had been sent.
C16_Witness ==
    /\ w.table \in Tables
    /\ called[w.table] = "failed"
    /\ stmts[w.table] >= 2
    /\ Len(w.rows) > ChunkSize(w.kind)
    /\ run.pc = "fatal"

\* The tables of the run in processing order
RunOrder ==
    IF run.via = "cli" THEN <<"TRIPS_RAW", "TRIP_STOPS_RAW">>
    ELSE [i \in DOMAIN ScriptOrder |-> TableOf(ScriptOrder[i])]

Before(t, k) ==
    \E i \in DOMAIN RunOrder, j \in DOMAIN RunOrder :
        i < j /\ RunOrder[i] = t /\ RunOrder[j] = k

Unstamped(rows) == [i \in DOMAIN rows |-> [k |-> rows[i].k, FILE_ID |-> rows[i].FILE_ID]]

\* The records the run has for table t (a table that is not the last of its run)
SourceRows(t) ==
    IF run.via = "cli" THEN Unstamped(trip_rows(run_ts))
    ELSE LET e == CHOOSE x \in WholeEntities : TableOf(x) = t
         IN Unstamped(FileData(FileName(e, "W2")))

\* C17: once a write has failed on table k the run is over with a fatal
\* error; every table before k in the processing order holds exactly the
\* rows committed to it (all records of its snapshot, one commit), and
\* every other table has received no statement and no row.
C17_FailureStopsRun ==
    \A k \in Tables :
        called[k] = "failed" =>
            /\ run.pc = "fatal"
            /\ \A t \in Tables \ {k} :
                  IF Before(t, k)
                  THEN /\ Unstamped(Committed(t)) = SourceRows(t)
                       /\ commits[t] = (IF SourceRows(t) = <<>> THEN 0 ELSE 1)
                       /\ called[t] = (IF SourceRows(t) = <<>> THEN "empty" ELSE "rows")
                  ELSE /\ tables[t] = <<OldRow>>
                       /\ stmts[t] = 0
                       /\ called[t] = "none"

\* A write failed between a table that was committed with rows and a
\* table that still had rows to write.
C17_Witness ==
    \E k \in Tables :
        /\ called[k] = "failed"
        /\ \E t \in Tables : Before(t, k) /\ commits[t] = 1 /\ Len(Committed(t)) = MaxItems
        /\ \E i \in DOMAIN todo : todo[i].rows # <<>>

----------------------------------------------------------------------------
(***************************************************************************)
(* Claims about the snapshot store (checked under SpecSnapshot)            *)
(***************************************************************************)
\* C10: after any sequence of snapshot writes, load_json of a file returns
\* exactly the ordered records, FILE_ID included, of the latest save_json
\* to that file; nothing of an earlier write survives.
C10_RegisterSemantics ==
    [][\A wdw \in Windows :
          LoadJson(wdw) =>
              loaded' = [called |-> TRUE, f |-> FileName(entity, wdw), ok |-> TRUE,
                         v |-> written[FileName(entity, wdw)].v]]_vars

\* A file was overwritten with different records and then read back.
C10_Witness ==
    /\ loaded.called /\ loaded.ok
    /\ lastSave.f = loaded.f /\ lastSave.replaced
    /\ loaded.v = written[loaded.f].v
    /\ Len(loaded.v) >= 2
    /\ loaded.v[1].FILE_ID = 1

----------------------------------------------------------------------------
(***************************************************************************)
(* Claims about utils.dates (checked under SpecDates)                      *)
(***************************************************************************)
\* C11: for a reference instant that falls on a Monday (UTC) the range is
\* the last full week before the reference's week: start is the Sunday
\* 00:00:00.000 eight days before the reference's day, end is the Saturday
\* 23:59:59.999 that follows it (start + 7 days - 1 ms).
C11_MondayReference ==
    (week.called /\ reference.k = "datetime" /\ weekday(reference.t) = Monday) =>
        /\ ~week.raised
        /\ weekday(week.start) = Sunday
        /\ week.start = Midnight(week.start)
        /\ week.start = Midnight(reference.t) - (DaysPerWeek + 1) * TicksPerDay
        /\ week.end = week.start + DaysPerWeek * TicksPerDay - 1
        /\ weekday(week.end) = Saturday
        /\ week.end + 1 = Midnight(week.end) + TicksPerDay

\* The range was computed for a Monday instant that is not midnight.
C11_Witness ==
    /\ week.called /\ ~week.raised
    /\ reference.k = "datetime" /\ weekday(reference.t) = Monday
    /\ reference.t # Midnight(reference.t)
    /\ week.end < reference.t

\* The run of the command line is over.
Terminal == cli.pc \in {"done", "fatal"}

IoKinds == {io[i].ev : i \in DOMAIN io}

\* C12: with --dry-run set, a run of export, insert or export-insert makes
\* no network I/O (credential-store query, token request, search request)
\* and no storage I/O (snapshot write, snapshot read-back, warehouse
\* insert), and it ends by returning after the would-be action was printed.
C12_DryRunNoIO ==
    args.dry_run =>
        /\ IoKinds \cap (NetworkEvents \cup StorageEvents) = {}
        /\ Terminal => (cli.pc = "done" /\ "print" \in IoKinds)

\* C13: an export or export-insert run with --weeks-ago N (N >= 1) of a
\* known tenant hands export_endpoints the Sunday-to-Saturday week N weeks
\* before the week of today.
C13_WeeksAgoWindow ==
    (args.cmd \in {"export", "export-insert"} /\ ~args.dry_run /\ args.known /\ Terminal) =>
        /\ passed.called
        /\ passed.start = start_of_week(today) - args.weeks_ago * DaysPerWeek * TicksPerDay
        /\ passed.end = passed.start + DaysPerWeek * TicksPerDay - 1

\* C14: an insert run without --dry-run ends normally with every requested
\* entity's snapshot read back and written to the warehouse.
C14_InsertCoversEveryEntity ==
    (args.cmd = "insert" /\ ~args.dry_run /\ Terminal) =>
        /\ cli.pc = "done"
        /\ \A k \in DOMAIN args.ents :
              \E i \in DOMAIN io : io[i] = Event("insert", args.ents[k])

\* C19: a run for a tenant without an entry in the credential store ends
\* with the credential-not-found error (KeyError) and has sent no token or
\* search request, written no snapshot file and made no warehouse insert;
\* and no such I/O happens at any point of the run.
C19_UnknownTenantFatal ==
    (args.cmd # "none" /\ ~args.known) =>
        /\ IoKinds \cap {"token", "search", "file_write", "insert"} = {}
        /\ Terminal => (cli.pc = "fatal" /\ cli.fatal = "KeyError")

----------------------------------------------------------------------------
(***************************************************************************)
(* Claims about the export run (checked under SpecExport)                  *)
(***************************************************************************)
\* The state of the i-th entity-fetch of the run
Status(i) ==
    IF xp.pc = "start" THEN "PENDING"
    ELSE IF ~xp.token THEN "FAILED"
    ELSE IF i < xp.pos THEN "WRITTEN"
    ELSE IF i > xp.pos THEN "TOKEN_ACQUIRED"
    ELSE CASE xp.pc = "next" -> "TOKEN_ACQUIRED"
           [] xp.pc = "fetching" -> "FETCHING"
           [] xp.pc \in {"fetched", "tagged"} -> "FETCHED"
           [] OTHER -> "FAILED"

Moves ==
    {<<"PENDING", "TOKEN_ACQUIRED">>, <<"TOKEN_ACQUIRED", "FETCHING">>,
     <<"FETCHING", "FETCHED">>, <<"FETCHED", "WRITTEN">>}
    \cup {<<st, "FAILED">> : st \in {"PENDING", "TOKEN_ACQUIRED", "FETCHING", "FETCHED"}}

EventsOf(job) == {i \in DOMAIN xlog : xlog[i].job = job}

\* What holds of the files and requests once a request has failed
StoppedAt ==
    \A i \in DOMAIN xp.jobs :
        LET job == xp.jobs[i]
        IN IF xp.token /\ i < xp.pos
           THEN /\ LET l == load_json(files[job]) IN l.ok /\ Len(l.v) = avail[job]
                /\ Cardinality({e \in EventsOf(job) : xlog[e].ev = "write"}) = 1
           ELSE /\ files[job] = xp.before[job]
                /\ \A e \in EventsOf(job) : xlog[e].ev = "search" /\ xp.token /\ i = xp.pos

\* C18: every entity-fetch moves PENDING -> TOKEN_ACQUIRED -> FETCHING ->
\* FETCHED -> WRITTEN or to FAILED.  No request is sent twice.  Once the
\* token request or a search request has failed, nothing more happens:
\* the snapshots written for earlier entity-fetches hold what was fetched
\* for them, the failing one's file and the later ones' files are as they
\* were before the run, and no request was sent for a later one.
C18_ExportStateMachine ==
    /\ [](\A a \in DOMAIN xlog, b \in DOMAIN xlog : a # b => xlog[a] # xlog[b])
    /\ [](xp.pc = "failed" => StoppedAt)
    /\ [][/\ xp.pc = "failed" => UNCHANGED <<xp, xlog, files>>
          /\ \A i \in DOMAIN xp.jobs :
                Status(i)' # Status(i) => <<Status(i), Status(i)'>> \in Moves]_vars

\* A search failed on a later page of an entity-fetch that is neither the
\* first nor the last of the run, over the snapshots of an earlier run.
C18_Witness ==
    /\ xp.pc = "failed" /\ xp.token
    /\ xp.pos >= 2 /\ xp.pos < Len(xp.jobs)
    /\ xp.page >= 1
    /\ xp.before[xp.jobs[1]] = OldSnapshot
    /\ files[xp.jobs[1]] # OldSnapshot

\* C20: every record of every snapshot file carries a FILE_ID and all
\* records of one file carry the same one; the identifier is generated
\* once per entity-fetch, after the last search request of the fetch, and
\* every record of the batch carries it before the file is written.
C20_OneFileIdPerFetch ==
    /\ \A f \in AllFiles :
          files[f] # NoFile =>
              LET l == load_json(files[f])
              IN l.ok /\ \A i \in DOMAIN l.v, j \in DOMAIN l.v : l.v[i].FILE_ID = l.v[j].FILE_ID
    /\ xp.pc = "tagged" =>
          /\ \A i \in DOMAIN xp.items : xp.items[i].FILE_ID = xp.file_id
          /\ xp.file_id >= get_file_id(xp.fetched_at)
    /\ \A i \in DOMAIN xp.jobs :
          LET ev == EventsOf(xp.jobs[i])
              ids == {e \in ev : xlog[e].ev = "file_id"}
          IN /\ Cardinality(ids) <= 1
             /\ \A wr \in ev : xlog[wr].ev = "write" => \E gen \in ids : gen < wr
             /\ \A gen \in ids, sr \in ev : xlog[sr].ev = "search" => sr < gen

\* The run wrote a snapshot of several records tagged some time after the
\* epoch, over the snapshot of an earlier run.
C20_Witness ==
    \E i \in DOMAIN xp.jobs :
        /\ i < xp.pos
        /\ xp.before[xp.jobs[i]] = OldSnapshot
        /\ LET l == load_json(files[xp.jobs[i]])
           IN Len(l.v) >= 2 /\ l.v[1].FILE_ID > 0

----------------------------------------------------------------------------
(***************************************************************************)
(* Claims about FILE_ID on the rows (checked under SpecFileId)             *)
(***************************************************************************)
\* Every row carries the FILE_ID of the record at the position it came from
\* (a stop row: of its parent trip).
InheritsFileId ==
    /\ \A i \in DOMAIN derived.rows :
          derived.rows[i].FILE_ID = snap[derived.rows[i].k].FILE_ID
    /\ \A j \in DOMAIN derived.stops :
          derived.stops[j].FILE_ID = snap[derived.stops[j].k].FILE_ID

\* All records of the file carry one FILE_ID, as in every file the export writes.
Uniform == \A i \in DOMAIN snap, j \in DOMAIN snap : snap[i].FILE_ID = snap[j].FILE_ID

----------------------------------------------------------------------------
(***************************************************************************)
(* Claims about credential resolution (checked under SpecCreds)            *)
(***************************************************************************)
\* The calls that queried the credential store
QueriesWhere(P(_)) == {i \in DOMAIN calls : ~calls[i].hit /\ P(calls[i].raw)}

\* All calls for one tenant got the same answer
SameAnswers ==
    \A i \in DOMAIN calls, j \in DOMAIN calls :
        NormScac(calls[i].raw) = NormScac(calls[j].raw) => calls[i].res = calls[j].res

\* C22 as stated: all calls for one tenant identifier, however spelled,
\* cost at most one query of the credential store and return the same
\* credentials.
C22_OneQueryPerTenant ==
    /\ \A t \in StoreRows : Cardinality(QueriesWhere(LAMBDA raw : NormScac(raw) = t)) <= 1
    /\ SameAnswers

\* C22 amended: all calls that pass the same string, for a tenant that
\* has an entry, cost at most one query as long as the string has not been
\* evicted from the cache; all calls for one tenant return the same
\* credentials.
C22_OneQueryPerSpelling ==
    /\ \A key \in RawKeys :
          (NormScac(key) \in StoreRows /\ key \notin evicted) =>
              Cardinality(QueriesWhere(LAMBDA raw : raw = key)) <= 1
    /\ SameAnswers

\* One spelling was passed twice and answered from the cache the second
\* time, and another spelling of the same tenant was passed too.
C22_Witness ==
    \E i \in DOMAIN calls, j \in DOMAIN calls, o \in DOMAIN calls :
        /\ i < j /\ calls[i].raw = calls[j].raw /\ calls[j].hit
        /\ calls[o].raw # calls[i].raw /\ NormScac(calls[o].raw) = NormScac(calls[i].raw)

----------------------------------------------------------------------------
(***************************************************************************)
(* Claims about the chunks of a write (checked under SpecWrite)            *)
(***************************************************************************)
\* C23: batch_insert sends a batch of n > 0 rows in contiguous slices of
\* BATCH_SIZE rows taken in row order: after s statements the rows sent
\* are the first min(s * BATCH_SIZE, n) rows of the batch, so every chunk
\* but the last has BATCH_SIZE rows and the last between 1 and BATCH_SIZE;
\* the commit follows statement ceil(n / BATCH_SIZE) and the table then
\* holds the batch, every row once and in order.
C23_Chunking ==
    (w.table \in Tables /\ w.kind = "batch" /\ called[w.table] = "rows") =>
        LET n == Len(w.rows)
            s == stmts[w.table]
        IN /\ n > 0
           /\ s <= CeilDiv(n, BATCH_SIZE)
           /\ commits[w.table] = 0 =>
                 /\ run.pc = "writing"
                 /\ w.i = s * BATCH_SIZE
                 /\ sent = SubSeq(w.rows, 1, Min(s * BATCH_SIZE, n))
           /\ commits[w.table] = 1 =>
                 /\ s = CeilDiv(n, BATCH_SIZE)
                 /\ Committed(w.table) = w.rows

\* batch_insert committed a batch whose last chunk was shorter than the others.
C23_Witness ==
    /\ w.table \in Tables /\ w.kind = "batch"
    /\ commits[w.table] = 1
    /\ Len(w.rows) > BATCH_SIZE
    /\ Len(w.rows) % BATCH_SIZE # 0
    /\ stmts[w.table] = CeilDiv(Len(w.rows), BATCH_SIZE)

----------------------------------------------------------------------------
(***************************************************************************)
(* Claims about the stop identifiers of one trip (checked under            *)
(* SpecSanitize)                                                           *)
(***************************************************************************)
\* The Id the source gave the i-th stop, and whether flatten_stops uses it
SourceId(i) == rec.stops[i].f[<<"Id">>]
Provided(i) == Truthy(SourceId(i))

\* The text <tripId>_<seq> before the ID column cuts it
SyntheticText(i) == Str(out.rows[1]["ID"]) \o <<"_">> \o Digits(i)

\* C24 as stated: when the Ids the source provides for the stops of a
\* trip are pairwise distinct, the ID values of the trip's stop rows are
\* pairwise distinct.
C24_StopIdsDistinct ==
    (out.called /\ ~out.raised /\ ent = "trip") =>
        ((\A i \in DOMAIN rec.stops, j \in DOMAIN rec.stops :
             (i # j /\ Provided(i) /\ Provided(j)) => SourceId(i) # SourceId(j))
         => \A i \in DOMAIN out.stops, j \in DOMAIN out.stops :
               i # j => out.stops[i]["ID"] # out.stops[j]["ID"])

\* C24 amended: two stops without an Id of their own get different IDs
\* when <tripId>_<seq> fits the ID column for both; two stops with an Id
\* of their own get different IDs when their Ids still differ after being
\* stripped of surrounding blanks and cut to the column width.
C24_StopIdsDistinctWhenFitting ==
    (out.called /\ ~out.raised /\ ent = "trip") =>
        \A i \in DOMAIN out.stops, j \in DOMAIN out.stops :
            /\ (i # j /\ ~Provided(i) /\ ~Provided(j)
                  /\ Len(SyntheticText(i)) <= S100 /\ Len(SyntheticText(j)) <= S100)
               => out.stops[i]["ID"] # out.stops[j]["ID"]
            /\ (i # j /\ Provided(i) /\ Provided(j)
                  /\ Take(Strip(Str(SourceId(i))), S100) # Take(Strip(Str(SourceId(j))), S100))
               => out.stops[i]["ID"] # out.stops[j]["ID"]

\* A trip with two stops that both lack an Id was flattened, and both
\* synthetic identifiers fit the column.
C24_Witness ==
    /\ out.called /\ ~out.raised /\ ent = "trip"
    /\ Len(out.stops) = 2
    /\ ~Provided(1) /\ ~Provided(2)
    /\ Len(SyntheticText(2)) <= S100
    /\ out.stops[1]["ID"] # out.stops[2]["ID"]

----------------------------------------------------------------------------
(***************************************************************************)
(* Claims about the chained subcommand (checked under SpecCli)             *)
(***************************************************************************)
\* The positions of the run's I/O events that belong to the insert mode
InsertPositions == {i \in DOMAIN io : io[i].ev \in {"read_snapshot", "insert"}}

\* The export has written the snapshot of entity e before position i
WrittenBefore(e, i) == \E j \in 1..(i - 1) : io[j] = Event("file_write", e)

\* The errors run_export can end with
ExportErrors == {"AttributeError", "KeyError"}

\* C25: in an export-insert run no insert-mode event happens before the
\* export has written the snapshot of every requested entity, and a run whose
\* export ended with a fatal error has no insert-mode event at all.
C25_ExportThenInsert ==
    args.cmd = "export-insert" =>
        /\ \A i \in InsertPositions :
               \A k \in DOMAIN args.ents : WrittenBefore(args.ents[k], i)
        /\ cli.fatal \in ExportErrors => InsertPositions = {} /\ cli.pc = "fatal"

\* An export-insert run, not a dry run, for a known tenant, whose export
\* ended with a fatal error and which performed no insert
C25_Witness ==
    /\ args.cmd = "export-insert"
    /\ ~args.dry_run
    /\ args.known
    /\ Len(args.ents) > 1
    /\ cli.pc = "fatal"
    /\ cli.fatal \in ExportErrors
    /\ InsertPositions = {}

=============================================================================
